---- MODULE Spec2Model ----
(***************************************************************************)
(* A model of Genieverse's tolerant response parser                        *)
(* (src/robust_json_parser.py) and query router (src/api_client.py).       *)
(*                                                                         *)
(* Texts are TLA+ strings handled character by character (Len, SubSeq and  *)
(* \o work on strings), so substring tests, regular expressions and JSON   *)
(* decoding are computed on the characters as the Python code computes     *)
(* them.  Python values are records tagged by t:                           *)
(*   [t |-> "null"]                    None                                *)
(*   [t |-> "bool", b |-> TRUE]        True / False                        *)
(*   [t |-> "int",  s |-> "551"]       an int, by its decimal digits       *)
(*   [t |-> "float", s |-> "545.45"]   a float, by its shortest literal    *)
(*   [t |-> "str",  s |-> "Date"]      a str                               *)
(*   [t |-> "arr",  a |-> <<...>>]     a list                              *)
(*   [t |-> "obj",  kv |-> <<[k |-> "Date", v |-> ...], ...>>]             *)
(*                                     a dict, in insertion order          *)
(*   [t |-> "raise", exc |-> "TypeError"]  an exception leaving a call     *)
(***************************************************************************)
EXTENDS Integers, Sequences, FiniteSets, TLC

----------------------------------------------------------------------------
(* Characters and strings *)

\* Python s[i-1]: the i-th character of s, "" outside the string.
At(s, i) == IF i >= 1 /\ i <= Len(s) THEN SubSeq(s, i, i) ELSE ""

\* Python s[i-1:]: the text from the i-th character on.
From(s, i) == IF i > Len(s) THEN "" ELSE SubSeq(s, i, Len(s))

\* Python s[:i-1]: the text before the i-th character.
Before(s, i) == IF i <= 1 THEN "" ELSE SubSeq(s, 1, i - 1)

\* s.startswith(p, i-1)
StartsWithAt(s, p, i) ==
    /\ i >= 1
    /\ i + Len(p) - 1 <= Len(s)
    /\ SubSeq(s, i, i + Len(p) - 1) = p

\* s.find(p, i-1) + 1: the first position >= i where p occurs, 0 if none.
FindFrom(s, p, i) ==
    IF \E j \in i..(Len(s) - Len(p) + 1) : StartsWithAt(s, p, j)
    THEN CHOOSE j \in i..(Len(s) - Len(p) + 1) :
             StartsWithAt(s, p, j) /\ \A k \in i..(j - 1) : ~StartsWithAt(s, p, k)
    ELSE 0

\* s.find(p) + 1
Find(s, p) == FindFrom(s, p, 1)

\* p in s
Contains(s, p) == Find(s, p) # 0

Digits == {"0", "1", "2", "3", "4", "5", "6", "7", "8", "9"}

UpperAlpha == "ABCDEFGHIJKLMNOPQRSTUVWXYZ"

LowerAlpha == "abcdefghijklmnopqrstuvwxyz"

Letters == {At(UpperAlpha, i) : i \in 1..26} \cup {At(LowerAlpha, i) : i \in 1..26}

\* the regular-expression class \w, of ASCII text
WordChars == Letters \cup Digits \cup {"_"}

\* the regular-expression class \s, and what str.strip() removes
SpaceChars == {" ", "\t", "\n", "\r"}

\* the first position >= i whose character is in (or, with neg, not in) cls;
\* Len(s) + 1 if there is none.
Scan(s, i, cls, neg) ==
    LET Stops(j) == j > Len(s) \/ ((At(s, j) \in cls) # neg)
    IN  CHOOSE j \in i..(Len(s) + 1) : Stops(j) /\ \A k \in i..(j - 1) : ~Stops(k)

\* the position after the run of whitespace that starts at i (regex \s*)
SkipWs(s, i) == Scan(s, i, SpaceChars, TRUE)

\* s.strip()
Strip(s) ==
    LET a == SkipWs(s, 1)
        keep == {j \in 1..Len(s) : At(s, j) \notin SpaceChars}
        b == IF keep = {} THEN 0 ELSE CHOOSE j \in keep : \A k \in keep : j >= k
    IN  IF keep = {} THEN "" ELSE SubSeq(s, a, b)

\* str.lower() on one character
LowerChar(c) ==
    IF \E i \in 1..26 : At(UpperAlpha, i) = c
    THEN At(LowerAlpha, CHOOSE i \in 1..26 : At(UpperAlpha, i) = c)
    ELSE c

RECURSIVE LowerFrom(_, _)
LowerFrom(s, i) == IF i > Len(s) THEN "" ELSE LowerChar(At(s, i)) \o LowerFrom(s, i + 1)

\* s.lower()
Lower(s) == LowerFrom(s, 1)

RECURSIVE JoinFrom(_, _, _)
JoinFrom(parts, sep, i) ==
    IF i > Len(parts) THEN ""
    ELSE IF i = Len(parts) THEN parts[i]
    ELSE parts[i] \o sep \o JoinFrom(parts, sep, i + 1)

\* sep.join(parts)
Join(parts, sep) == JoinFrom(parts, sep, 1)

RECURSIVE NatToStr(_)
\* str(n) for n >= 0
NatToStr(n) ==
    IF n < 10 THEN At("0123456789", n + 1)
    ELSE NatToStr(n \div 10) \o At("0123456789", (n % 10) + 1)

----------------------------------------------------------------------------
(* Python values *)

PyNone == [t |-> "null"]

PyBool(b) == [t |-> "bool", b |-> b]

PyInt(s) == [t |-> "int", s |-> s]

PyFloat(s) == [t |-> "float", s |-> s]

PyStr(s) == [t |-> "str", s |-> s]

PyList(a) == [t |-> "arr", a |-> a]

PyDict(kv) == [t |-> "obj", kv |-> kv]

KV(k, v) == [k |-> k, v |-> v]

Raise(exc) == [t |-> "raise", exc |-> exc]

IsRaise(v) == v.t = "raise"

\* k in d, for a dict d
HasKey(d, k) == \E i \in 1..Len(d.kv) : d.kv[i].k = k

\* d[k], for a dict d that has k
Get(d, k) == d.kv[CHOOSE i \in 1..Len(d.kv) : d.kv[i].k = k].v

\* d.get(k)
GetOrNone(d, k) == IF HasKey(d, k) THEN Get(d, k) ELSE PyNone

\* d[k] = v: a new key goes last, an old key keeps its place.
Put(d, k, v) ==
    IF HasKey(d, k)
    THEN PyDict([i \in 1..Len(d.kv) |-> IF d.kv[i].k = k THEN KV(k, v) ELSE d.kv[i]])
    ELSE PyDict(Append(d.kv, KV(k, v)))

\* list(d.keys())
Keys(d) == [i \in 1..Len(d.kv) |-> d.kv[i].k]

\* bool(v)
Truthy(v) ==
    CASE v.t = "null" -> FALSE
      [] v.t = "bool" -> v.b
      [] v.t = "int" -> \E i \in 1..Len(v.s) : At(v.s, i) \in (Digits \ {"0"})
      [] v.t = "float" -> \E i \in 1..Len(v.s) : At(v.s, i) \in (Digits \ {"0"})
      [] v.t = "str" -> v.s # ""
      [] v.t = "arr" -> Len(v.a) > 0
      [] v.t = "obj" -> Len(v.kv) > 0

\* isinstance(v, (int, float)); bool is a subclass of int
IsNumber(v) == v.t \in {"int", "float", "bool"}

----------------------------------------------------------------------------
(* json.loads: the standard decoder, on the characters of the text.        *)
(* A decoding step answers [ok |-> TRUE, v |-> value, pos |-> next         *)
(* position] or [ok |-> FALSE].  Of the string escapes only the            *)
(* one-character ones are decoded and \uXXXX is rejected; a float written   *)
(* with an exponent keeps the exponent as written.                         *)

JFail == [ok |-> FALSE]

JOk(v, pos) == [ok |-> TRUE, v |-> v, pos |-> pos]

\* s[i-1:j] of Python: the characters i..j, "" when j < i
Sub(s, i, j) == IF j < i THEN "" ELSE SubSeq(s, i, j)

\* characters that end a run of plain string content
StringStops == {"\"", "\\", "\n", "\t", "\r"}

Unescape(c) ==
    CASE c = "n" -> "\n"
      [] c = "t" -> "\t"
      [] c = "r" -> "\r"
      [] OTHER -> c

RECURSIVE ScanString(_, _, _)
\* the string literal whose content starts at i (after the opening quote); e is
\* where the run of plain content ends, chunk the content up to there
ScanString(s, i, acc) ==
    LET Content(e, chunk) ==
            IF e > Len(s) THEN JFail
            ELSE IF At(s, e) = "\"" THEN JOk(PyStr(chunk), e + 1)
            ELSE IF At(s, e) = "\\" /\ At(s, e + 1) \in {"\"", "\\", "/", "n", "t", "r"}
                 THEN ScanString(s, e + 2, chunk \o Unescape(At(s, e + 1)))
            ELSE JFail
        Run(e) == Content(e, acc \o Sub(s, i, e - 1))
    IN  Run(Scan(s, i, StringStops, FALSE))

\* text with its leading characters c removed, but never the last character
RECURSIVE DropLeading(_, _)
DropLeading(s, c) ==
    IF Len(s) > 1 /\ At(s, 1) = c THEN DropLeading(From(s, 2), c) ELSE s

\* text with its trailing characters c removed
RECURSIVE DropTrailing(_, _)
DropTrailing(s, c) ==
    IF Len(s) > 0 /\ At(s, Len(s)) = c THEN DropTrailing(Before(s, Len(s)), c) ELSE s

\* float(sign int "." frac exp), written the way repr() writes it when exp = ""
FloatOf(sign, int, frac, exp) ==
    LET f == DropTrailing(frac, "0")
    IN  PyFloat(sign \o DropLeading(int, "0") \o "." \o (IF f = "" THEN "0" ELSE f) \o exp)

\* the number literal at i: -?(0|[1-9]\d*)(\.\d+)?([eE][-+]?\d+)? ; a is where
\* its digits start, intEnd, fracEnd and expEnd where its integer part, its
\* fraction and its exponent end, b where the digits of an exponent would start
ScanNumber(s, i) ==
    LET Number(a, intEnd, fracEnd, expEnd) ==
            IF At(s, a) \notin Digits THEN JFail
            ELSE IF expEnd = intEnd
                 THEN JOk(PyInt(IF Sub(s, i, intEnd - 1) = "-0" THEN "0"
                                ELSE Sub(s, i, intEnd - 1)), intEnd)
            ELSE JOk(FloatOf(Sub(s, i, a - 1), Sub(s, a, intEnd - 1),
                             Sub(s, intEnd + 1, fracEnd - 1), Sub(s, fracEnd, expEnd - 1)),
                     expEnd)
        Exponent(a, intEnd, fracEnd, b) ==
            Number(a, intEnd, fracEnd,
                   IF At(s, fracEnd) \in {"e", "E"} /\ At(s, b) \in Digits
                   THEN Scan(s, b, Digits, TRUE)
                   ELSE fracEnd)
        Fraction(a, intEnd, fracEnd) ==
            Exponent(a, intEnd, fracEnd,
                     IF At(s, fracEnd + 1) \in {"+", "-"} THEN fracEnd + 2 ELSE fracEnd + 1)
        Integer(a, intEnd) ==
            Fraction(a, intEnd,
                     IF At(s, intEnd) = "." /\ At(s, intEnd + 1) \in Digits
                     THEN Scan(s, intEnd + 1, Digits, TRUE)
                     ELSE intEnd)
        Sign(a) == Integer(a, IF At(s, a) = "0" THEN a + 1 ELSE Scan(s, a, Digits, TRUE))
    IN  Sign(IF At(s, i) = "-" THEN i + 1 ELSE i)

RECURSIVE ParseValue(_, _)
RECURSIVE ParseMembers(_, _, _)
RECURSIVE ParseElements(_, _, _)

\* the members of an object from the key whose opening quote is at i: the key,
\* the colon at c, the value, and at d the brace or the comma after it
ParseMembers(s, i, acc) ==
    LET Rest(d, more) ==
            IF At(s, d) = "}" THEN JOk(more, d + 1)
            ELSE IF At(s, d) = "," THEN ParseMembers(s, SkipWs(s, d + 1), more)
            ELSE JFail
        Member(key, val) ==
            IF ~val.ok THEN JFail
            ELSE Rest(SkipWs(s, val.pos), Put(acc, key.v.s, val.v))
        Colon(key, c) ==
            IF At(s, c) # ":" THEN JFail
            ELSE Member(key, ParseValue(s, SkipWs(s, c + 1)))
        Key(key) == IF ~key.ok THEN JFail ELSE Colon(key, SkipWs(s, key.pos))
    IN  IF At(s, i) # "\"" THEN JFail ELSE Key(ScanString(s, i + 1, ""))

\* the elements of an array from the value at i, and at d the bracket or the
\* comma after it
ParseElements(s, i, acc) ==
    LET Rest(d, more) ==
            IF At(s, d) = "]" THEN JOk(PyList(more), d + 1)
            ELSE IF At(s, d) = "," THEN ParseElements(s, SkipWs(s, d + 1), more)
            ELSE JFail
        Element(val) ==
            IF ~val.ok THEN JFail ELSE Rest(SkipWs(s, val.pos), Append(acc, val.v))
    IN  Element(ParseValue(s, i))

\* the JSON value that starts at i; j is where the content of an object or an
\* array starts
ParseValue(s, i) ==
    LET Object(j) ==
            IF At(s, j) = "}" THEN JOk(PyDict(<<>>), j + 1)
            ELSE ParseMembers(s, j, PyDict(<<>>))
        Array(j) ==
            IF At(s, j) = "]" THEN JOk(PyList(<<>>), j + 1)
            ELSE ParseElements(s, j, <<>>)
        Value(c) ==
            CASE c = "\"" -> ScanString(s, i + 1, "")
              [] c = "{" -> Object(SkipWs(s, i + 1))
              [] c = "[" -> Array(SkipWs(s, i + 1))
              [] c = "n" /\ StartsWithAt(s, "null", i) -> JOk(PyNone, i + 4)
              [] c = "t" /\ StartsWithAt(s, "true", i) -> JOk(PyBool(TRUE), i + 4)
              [] c = "f" /\ StartsWithAt(s, "false", i) -> JOk(PyBool(FALSE), i + 5)
              [] c = "N" /\ StartsWithAt(s, "NaN", i) -> JOk(PyFloat("nan"), i + 3)
              [] c = "I" /\ StartsWithAt(s, "Infinity", i) -> JOk(PyFloat("inf"), i + 8)
              [] c = "-" /\ StartsWithAt(s, "-Infinity", i) -> JOk(PyFloat("-inf"), i + 9)
              [] OTHER -> ScanNumber(s, i)
    IN  Value(At(s, i))

\* json.loads(s): the decoded value, or JSONDecodeError raised when no value
\* can be read or something other than whitespace follows it
JsonLoads(s) ==
    LET Decoded(r) ==
            IF ~r.ok THEN Raise("JSONDecodeError")
            ELSE IF SkipWs(s, r.pos) <= Len(s) THEN Raise("JSONDecodeError")
            ELSE r.v
    IN  Decoded(ParseValue(s, SkipWs(s, 1)))

----------------------------------------------------------------------------
(* The regular expressions of RobustJSONParser.chart_patterns, each as the  *)
(* matcher the re module runs for it.                                      *)

RECURSIVE RecordEnd(_, _)
\* record_pattern \{[^{}]*(?:\{[^{}]*\}[^{}]*)*\} after its opening brace: j is
\* a position at nesting depth 1; the position of the closing brace, 0 if the
\* pattern does not match (text ends, or a brace opens at depth 2).  b is the
\* next brace at depth 1, c the next brace after an inner opening brace.
RecordEnd(s, j) ==
    LET Inner(c) == IF c > Len(s) \/ At(s, c) = "{" THEN 0 ELSE RecordEnd(s, c + 1)
        Outer(b) ==
            IF b > Len(s) THEN 0
            ELSE IF At(s, b) = "}" THEN b
            ELSE Inner(Scan(s, b + 1, {"{", "}"}, FALSE))
    IN  Outer(Scan(s, j, {"{", "}"}, FALSE))

RECURSIVE RecordMatches(_, _)
\* re.finditer / re.findall of record_pattern in s from position i: the
\* non-overlapping matches, leftmost first; o is the next opening brace, e the
\* end of the match that starts there
RecordMatches(s, i) ==
    LET Match(o, e) ==
            IF e = 0 THEN RecordMatches(s, o + 1)
            ELSE <<Sub(s, o, e)>> \o RecordMatches(s, e + 1)
        Opening(o) == IF o > Len(s) THEN <<>> ELSE Match(o, RecordEnd(s, o + 1))
    IN  Opening(Scan(s, i, {"{"}, FALSE))

\* the class [\w":\s,] of after_data_pattern
AfterDataClass == WordChars \cup SpaceChars \cup {"\"", ":", ","}

\* after_data_pattern \]\s*,\s*("[\w":\s,]+)\s*\}?\s*$ anchored at the "]" at
\* p: its group 1, "" if it does not match there.  q is where the comma must
\* be, r where the quote must be, m the last character of the class after it.
AfterDataAt(s, p) ==
    LET Group(r, m) ==
            IF /\ m >= r + 1
               /\ \/ m = Len(s)
                  \/ At(s, m + 1) = "}" /\ SkipWs(s, m + 2) > Len(s)
            THEN Sub(s, r, m)
            ELSE ""
        Quote(r) ==
            IF At(s, r) = "\"" THEN Group(r, Scan(s, r + 1, AfterDataClass, TRUE) - 1) ELSE ""
        Comma(q) == IF At(s, q) = "," THEN Quote(SkipWs(s, q + 1)) ELSE ""
    IN  Comma(SkipWs(s, p + 1))

\* re.search(after_data_pattern, s): group 1 of the leftmost match, "" if none
AfterDataSearch(s) ==
    LET Leftmost(ps) ==
            IF ps = {} THEN "" ELSE AfterDataAt(s, CHOOSE p \in ps : \A k \in ps : p <= k)
    IN  Leftmost({p \in 1..Len(s) : At(s, p) = "]" /\ AfterDataAt(s, p) # ""})

\* "<key>"\s*:\s* anchored at i: the position after it, 0 if it does not match
KeyColonAt(s, key, i) ==
    LET Colon(q) ==
            IF StartsWithAt(s, "\"" \o key \o "\"", i) /\ At(s, q) = ":"
            THEN SkipWs(s, q + 1)
            ELSE 0
    IN  Colon(SkipWs(s, i + Len(key) + 2))

\* "<key>"\s*:\s*"([^"]+)" anchored at i: the position of the closing quote,
\* 0 if it does not match; v is where the opening quote must be
KeyStringAt(s, key, i) ==
    LET Closing(v, e) == IF e <= Len(s) /\ e > v + 1 THEN e ELSE 0
        Opening(v) ==
            IF v # 0 /\ At(s, v) = "\"" THEN Closing(v, Scan(s, v + 1, {"\""}, FALSE)) ELSE 0
    IN  Opening(KeyColonAt(s, key, i))

\* re.search of "<key>"\s*:\s*"([^"]+)": group 1 of the leftmost match, "" if
\* none (the group is never empty)
KeyStringSearch(s, key) ==
    LET Group(i0) == Sub(s, KeyColonAt(s, key, i0) + 1, KeyStringAt(s, key, i0) - 1)
        Leftmost(ps) ==
            IF ps = {} THEN "" ELSE Group(CHOOSE i \in ps : \A k \in ps : i <= k)
    IN  Leftmost({i \in 1..Len(s) : KeyStringAt(s, key, i) # 0})

\* re.search(status_success, s) is not None: "status"\s*:\s*"success"
StatusSuccessSearch(s) ==
    LET Success(v) == v # 0 /\ StartsWithAt(s, "\"success\"", v)
    IN  \E i \in 1..Len(s) : Success(KeyColonAt(s, "status", i))

\* re.search(data_array_start, s).end(): "data"\s*:\s*\[ ; the position after
\* the leftmost match, 0 if none
DataArrayStartEnd(s) ==
    LET Bracket(v) == v # 0 /\ At(s, v) = "["
        Leftmost(ps) ==
            IF ps = {} THEN 0
            ELSE KeyColonAt(s, "data", CHOOSE i \in ps : \A k \in ps : i <= k) + 1
    IN  Leftmost({i \in 1..Len(s) : Bracket(KeyColonAt(s, "data", i))})

\* numeric_field "(\w+)"\s*:\s*(\d+(?:\.\d+)?) anchored at the quote at i:
\* [name, value, end] of the match, end = 0 if it does not match.  w is where
\* the name ends, q where the colon must be, v where the digits start, d where
\* they end, f where the number ends.
NumericFieldAt(s, i) ==
    LET NoMatch == [name |-> "", value |-> "", end |-> 0]
        Number(w, v, f) == [name |-> Sub(s, i + 1, w - 1), value |-> Sub(s, v, f - 1), end |-> f]
        Fraction(w, v, d) ==
            IF d > v
            THEN Number(w, v, IF At(s, d) = "." /\ At(s, d + 1) \in Digits
                              THEN Scan(s, d + 1, Digits, TRUE)
                              ELSE d)
            ELSE NoMatch
        Digit(w, v) == Fraction(w, v, Scan(s, v, Digits, TRUE))
        Colon(w, q) == IF At(s, q) = ":" THEN Digit(w, SkipWs(s, q + 1)) ELSE NoMatch
        Name(w) ==
            IF At(s, i) = "\"" /\ w > i + 1 /\ At(s, w) = "\""
            THEN Colon(w, SkipWs(s, w + 1))
            ELSE NoMatch
    IN  Name(Scan(s, i + 1, WordChars, TRUE))

RECURSIVE NumericFieldMatches(_, _)
\* re.findall(numeric_field, s) from position i: the (name, value) pairs
NumericFieldMatches(s, i) ==
    LET Match(o, m) ==
            IF m.end = 0 THEN NumericFieldMatches(s, o + 1)
            ELSE <<m>> \o NumericFieldMatches(s, m.end)
        Opening(o) == IF o > Len(s) THEN <<>> ELSE Match(o, NumericFieldAt(s, o))
    IN  Opening(Scan(s, i, {"\""}, FALSE))

----------------------------------------------------------------------------
(* Python operations on values of any type, with the exceptions they raise *)

\* whether `x in v` is defined for v (otherwise TypeError)
IsContainer(v) == v.t \in {"str", "arr", "obj"}

\* sub in v, for a str (substring), a list (element) or a dict (key)
InOp(sub, v) ==
    CASE v.t = "str" -> Contains(v.s, sub)
      [] v.t = "arr" -> \E i \in 1..Len(v.a) : v.a[i] = PyStr(sub)
      [] v.t = "obj" -> HasKey(v, sub)
      [] OTHER -> FALSE

\* v[0]
Subscript0(v) ==
    CASE v.t = "arr" -> IF Len(v.a) > 0 THEN v.a[1] ELSE Raise("IndexError")
      [] v.t = "str" -> IF v.s # "" THEN PyStr(At(v.s, 1)) ELSE Raise("IndexError")
      [] v.t = "obj" -> Raise("KeyError")
      [] OTHER -> Raise("TypeError")

\* len(v)
LenOp(v) ==
    CASE v.t = "arr" -> PyInt(NatToStr(Len(v.a)))
      [] v.t = "str" -> PyInt(NatToStr(Len(v.s)))
      [] v.t = "obj" -> PyInt(NatToStr(Len(v.kv)))
      [] OTHER -> Raise("TypeError")

RECURSIVE Replace(_, _, _)
\* s.replace(old, new), old not empty
Replace(s, old, new) ==
    LET Found(i) ==
            IF i = 0 THEN s
            ELSE Before(s, i) \o new \o Replace(From(s, i + Len(old)), old, new)
    IN  Found(Find(s, old))

\* the first element of seq that satisfies Test, given that one does
FirstSuch(seq, Test(_)) ==
    seq[CHOOSE i \in 1..Len(seq) : Test(seq[i]) /\ \A k \in 1..(i - 1) : ~Test(seq[k])]

----------------------------------------------------------------------------
(* RobustJSONParser *)

supported_chart_types == <<"candlestick", "scatter", "line", "bar", "pie">>

error_indicators ==
    <<"\"error\":", "TABLE_OR_VIEW_NOT_FOUND", "SQLSTATE", "error", "ERROR",
      "Exception", "Failed", "cannot be found">>

\* the length beyond which the default cleanup cuts a message
MaxErrorLen == 200

\* _clean_truncated_response
CleanTruncatedResponse(response_text) ==
    LET IsComplete(record_text) == ~IsRaise(JsonLoads(record_text))
        Reconstructed(cleaned_text, before_data, complete_records, after_data_match) ==
            IF Len(complete_records) > 0
            THEN before_data \o "\"data\": [" \o Join(complete_records, ", ") \o "]"
                 \o (IF after_data_match # "" THEN ", " \o after_data_match ELSE "") \o "}"
            ELSE cleaned_text
        Records(cleaned_text, data_start) ==
            IF data_start = 0 THEN cleaned_text
            ELSE Reconstructed(cleaned_text, Before(cleaned_text, data_start),
                               SelectSeq(RecordMatches(From(cleaned_text, data_start), 1),
                                         IsComplete),
                               AfterDataSearch(cleaned_text))
        Cleaned(cleaned_text) == Records(cleaned_text, Find(cleaned_text, "\"data\": ["))
    IN  Cleaned(Strip(response_text))

\* a weaker test than _is_error_response: only the first indicator, the error
\* field of a JSON object, is looked for
IsErrorResponseFieldOnly(response_text) == Contains(response_text, error_indicators[1])

\* _is_error_response
IsErrorResponse(response_text) ==
    \E i \in 1..Len(error_indicators) : Contains(response_text, error_indicators[i])

\* _clean_error_message; error_text is whatever the caller passes, a str or not
CleanErrorMessage(error_text) ==
    LET Default(clean_msg) ==
            IF Len(clean_msg) > MaxErrorLen
            THEN PyStr(SubSeq(clean_msg, 1, MaxErrorLen) \o "...")
            ELSE IF clean_msg # "" THEN PyStr(clean_msg)
            ELSE PyStr("An error occurred while processing the request.")
        FirstLine(newline) ==
            IF newline = 0 THEN error_text ELSE PyStr(Before(error_text.s, newline))
        Other ==
            IF InOp("cannot be found", error_text)
            THEN PyStr("The requested data source cannot be found. Please verify the stock symbol and date range.")
            ELSE IF error_text.t # "str" THEN Raise("AttributeError")
            ELSE IF InOp("Failed to", error_text) \/ InOp("Error:", error_text)
                 THEN FirstLine(Find(error_text.s, "\n"))
            ELSE Default(Strip(error_text.s))
        MainError(main_error) == IF main_error # "" THEN PyStr(main_error) ELSE Other
        SqlState ==
            IF error_text.t # "str" THEN Raise("AttributeError")
            ELSE MainError(Strip(Replace(
                     Strip(Before(error_text.s, Find(error_text.s, "SQLSTATE"))),
                     "[TABLE_OR_VIEW_NOT_FOUND]", "")))
    IN  IF ~IsContainer(error_text) THEN Raise("TypeError")
        ELSE IF InOp("TABLE_OR_VIEW_NOT_FOUND", error_text)
             THEN IF InOp("TCS_stock", error_text)
                  THEN PyStr("TCS stock data not found in database. Please check if the data exists for the requested time period.")
                  ELSE PyStr("Requested stock data table not found in database.")
        ELSE IF InOp("SQLSTATE", error_text) THEN SqlState
        ELSE Other

\* the dict _extract_error_message returns
ErrorResult(msg, error_type) ==
    PyDict(<<KV("status", PyStr("error")), KV("error", msg),
             KV("error_type", PyStr(error_type)), KV("chart_data", PyNone)>>)

\* _extract_error_message
ExtractErrorMessage(response_text) ==
    LET General == ErrorResult(CleanErrorMessage(PyStr(response_text)), "general")
        Database(clean_msg) ==
            IF IsRaise(clean_msg)
            THEN ErrorResult(PyStr("Failed to parse error response"), "parser")
            ELSE ErrorResult(clean_msg, "database")
        FromJson(parsed) ==
            IF ~IsRaise(parsed) /\ parsed.t = "obj" /\ HasKey(parsed, "error")
            THEN Database(CleanErrorMessage(Get(parsed, "error")))
            ELSE General
    IN  FromJson(IF StartsWithAt(Strip(response_text), "{", 1)
                 THEN JsonLoads(response_text)
                 ELSE Raise("JSONDecodeError"))

x_candidates == <<"Date", "date", "time", "Time", "timestamp", "Timestamp">>

\* _detect_x_column; records is whatever the response carries as "data"
DetectXColumn(records) ==
    LET sample_record == Subscript0(records)
        Present(candidate) == InOp(candidate, sample_record)
    IN  IF ~Truthy(records) THEN PyStr("Date")
        ELSE IF IsRaise(sample_record) THEN sample_record
        ELSE IF ~IsContainer(sample_record) THEN Raise("TypeError")
        ELSE IF \E i \in 1..Len(x_candidates) : Present(x_candidates[i])
             THEN PyStr(FirstSuch(x_candidates, Present))
        ELSE IF ~Truthy(sample_record) THEN PyStr("Date")
        ELSE IF sample_record.t = "obj" THEN PyStr(Keys(sample_record)[1])
        ELSE Raise("AttributeError")

\* the first n elements of seq, or all of it if it is shorter: seq[:n]
Take(seq, n) == IF Len(seq) <= n THEN seq ELSE SubSeq(seq, 1, n)

\* _detect_y_columns
DetectYColumns(records, chart_type) ==
    LET sample_record == Subscript0(records)
        IsNumericField(kv) == IsNumber(kv.v) /\ kv.k \notin {"Date", "date"}
        numeric_kv == SelectSeq(sample_record.kv, IsNumericField)
        numeric_fields == [i \in 1..Len(numeric_kv) |-> PyStr(numeric_kv[i].k)]
    IN  IF ~Truthy(records) THEN PyList(<<>>)
        ELSE IF IsRaise(sample_record) THEN sample_record
        ELSE IF sample_record.t # "obj" THEN Raise("AttributeError")
        ELSE IF chart_type = PyStr("candlestick")
             THEN PyList(<<PyStr("Open"), PyStr("High"), PyStr("Low"), PyStr("Close")>>)
        ELSE IF chart_type = PyStr("scatter") THEN PyList(Take(numeric_fields, 2))
        ELSE IF chart_type \in {PyStr("line"), PyStr("bar")}
             THEN PyList(Take(numeric_fields, 1))
        ELSE PyList(numeric_fields)

\* _detect_chart_type_from_data
DetectChartTypeFromData(data_records) ==
    LET first_record == Subscript0(data_records)
        IsNumericColumn(kv) == IsNumber(kv.v)
        numeric_cols == SelectSeq(first_record.kv, IsNumericColumn)
    IN  IF ~Truthy(data_records) THEN PyStr("line")
        ELSE IF IsRaise(first_record) THEN first_record
        ELSE IF first_record.t # "obj" THEN Raise("AttributeError")
        ELSE IF \A col \in {"Open", "High", "Low", "Close"} : HasKey(first_record, col)
             THEN PyStr("candlestick")
        ELSE IF Len(numeric_cols) >= 2 THEN PyStr("scatter")
        ELSE PyStr("line")

parser_info ==
    PyDict(<<KV("method", PyStr("robust_parser_v2")), KV("version", PyStr("2.0")),
             KV("features", PyList(<<PyStr("truncation_handling"), PyStr("auto_detection"),
                                     PyStr("data_cleaning")>>))>>)

\* _enhance_chart_data, step by step; a step whose call raises yields the
\* exception, which the later steps pass on.
EnhanceStatus(d) ==
    IF ~HasKey(d, "status") THEN Put(d, "status", PyStr("success")) ELSE d

EnhanceChartType(d) ==
    LET Set(detected) == IF IsRaise(detected) THEN detected ELSE Put(d, "chart_type", detected)
    IN  IF IsRaise(d) THEN d
        ELSE IF ~HasKey(d, "chart_type") /\ HasKey(d, "data")
             THEN Set(DetectChartTypeFromData(Get(d, "data")))
        ELSE d

EnhanceX(d) ==
    LET Set(detected) == IF IsRaise(detected) THEN detected ELSE Put(d, "x", detected)
    IN  IF IsRaise(d) THEN d
        ELSE IF HasKey(d, "data") /\ Truthy(Get(d, "data")) /\ ~HasKey(d, "x")
             THEN Set(DetectXColumn(Get(d, "data")))
        ELSE d

EnhanceY(d) ==
    LET Set(detected) == IF IsRaise(detected) THEN detected ELSE Put(d, "y", detected)
    IN  IF IsRaise(d) THEN d
        ELSE IF HasKey(d, "data") /\ Truthy(Get(d, "data")) /\ ~HasKey(d, "y")
             THEN Set(DetectYColumns(Get(d, "data"),
                                     IF HasKey(d, "chart_type") THEN Get(d, "chart_type")
                                     ELSE PyStr("line")))
        ELSE d

EnhanceCount(d) ==
    LET Set(data_count) ==
            IF IsRaise(data_count) THEN data_count
            ELSE Put(Put(d, "data_count", data_count), "data_complete", PyBool(TRUE))
    IN  IF IsRaise(d) THEN d
        ELSE IF HasKey(d, "data") THEN Set(LenOp(Get(d, "data")))
        ELSE d

\* _enhance_chart_data
EnhanceChartData(chart_data) ==
    LET Info(enhanced_data) ==
            IF IsRaise(enhanced_data) THEN enhanced_data
            ELSE Put(enhanced_data, "parser_info", parser_info)
    IN  Info(EnhanceCount(EnhanceY(EnhanceX(EnhanceChartType(EnhanceStatus(chart_data))))))

\* _extract_chart_metadata: the metadata dict, or None
ExtractChartMetadata(text) ==
    LET Supported(chart_type) ==
            IF chart_type = "" THEN PyNone
            ELSE IF \A i \in 1..Len(supported_chart_types) :
                        supported_chart_types[i] # chart_type
                 THEN PyNone
            ELSE PyDict(<<KV("chart_type", PyStr(chart_type))>>)
    IN  IF ~StatusSuccessSearch(text) THEN PyNone
        ELSE Supported(KeyStringSearch(text, "chart_type"))

\* _get_required_fields
GetRequiredFields(chart_type) ==
    CASE chart_type = "candlestick" -> <<"Date", "Open", "High", "Low", "Close">>
      [] chart_type = "scatter" -> <<"Date">>
      [] chart_type = "line" -> <<"Date">>
      [] chart_type = "bar" -> <<>>
      [] chart_type = "pie" -> <<>>
      [] OTHER -> <<"Date">>

\* _validate_record
ValidateRecord(record, chart_type) ==
    LET required_fields == GetRequiredFields(chart_type)
    IN  /\ record.t = "obj"
        /\ \A i \in 1..Len(required_fields) : HasKey(record, required_fields[i])

RECURSIVE PutNumericFields(_, _, _)
\* the loop of _extract_fields_manually over the numeric matches from the i-th
PutNumericFields(record, numeric_matches, i) ==
    LET Float(digits, dot) ==
            IF dot = 0 THEN FloatOf("", digits, "", "")
            ELSE FloatOf("", Before(digits, dot), From(digits, dot + 1), "")
        Field(field_name, field_value) ==
            IF field_name # "Date"
            THEN Put(record, field_name, Float(field_value, Find(field_value, ".")))
            ELSE record
    IN  IF i > Len(numeric_matches) THEN record
        ELSE PutNumericFields(Field(numeric_matches[i].name, numeric_matches[i].value),
                              numeric_matches, i + 1)

\* _extract_fields_manually: the record, or None
ExtractFieldsManually(record_text) ==
    LET Enough(record) == IF Len(record.kv) > 1 THEN record ELSE PyNone
        Dated(date_match) ==
            IF date_match # "" THEN PyDict(<<KV("Date", PyStr(date_match))>>)
            ELSE PyDict(<<>>)
    IN  Enough(PutNumericFields(Dated(KeyStringSearch(record_text, "Date")),
                                NumericFieldMatches(record_text, 1), 1))

RECURSIVE ParseRecords(_, _, _)
\* the loop of _extract_data_records over the matches from the i-th
ParseRecords(record_matches, chart_type, i) ==
    LET Manual(record) ==
            IF Truthy(record) /\ ValidateRecord(record, chart_type) THEN <<record>> ELSE <<>>
        Kept(record) ==
            IF ~IsRaise(record)
            THEN IF ValidateRecord(record, chart_type) THEN <<record>> ELSE <<>>
            ELSE Manual(ExtractFieldsManually(record_matches[i]))
    IN  IF i > Len(record_matches) THEN <<>>
        ELSE Kept(JsonLoads(record_matches[i]))
             \o ParseRecords(record_matches, chart_type, i + 1)

\* _extract_data_records: the list of the records kept
ExtractDataRecords(text, chart_type) ==
    LET Records(data_start_end) ==
            IF data_start_end = 0 THEN <<>>
            ELSE ParseRecords(RecordMatches(From(text, data_start_end), 1), chart_type, 1)
    IN  Records(DataArrayStartEnd(text))

\* the pattern-based extraction of parse_response (source lines 198-220)
PatternExtraction(response_text) ==
    LET Chart(chart_type, data_records) ==
            IF Len(data_records) = 0 THEN PyNone
            ELSE PyDict(<<KV("status", PyStr("success")),
                          KV("chart_type", chart_type),
                          KV("data", PyList(data_records)),
                          KV("x", DetectXColumn(PyList(data_records))),
                          KV("y", DetectYColumns(PyList(data_records), chart_type))>>)
        Records(chart_type) ==
            Chart(chart_type, ExtractDataRecords(response_text, chart_type.s))
        Metadata(chart_info) ==
            IF ~Truthy(chart_info) THEN PyNone ELSE Records(Get(chart_info, "chart_type"))
    IN  Metadata(ExtractChartMetadata(response_text))

\* the direct JSON parse of parse_response (source lines 185-196): the result
\* it returns, an exception raised inside it, or "next" when it falls through
DirectParse(response_text) ==
    LET Enhanced(parsed_json) ==
            IF /\ ~IsRaise(parsed_json)
               /\ parsed_json.t = "obj"
               /\ GetOrNone(parsed_json, "status") = PyStr("success")
            THEN EnhanceChartData(parsed_json)
            ELSE [t |-> "next"]
        Loaded(cleaned_response) ==
            Enhanced(IF StartsWithAt(Strip(cleaned_response), "{", 1)
                     THEN JsonLoads(cleaned_response)
                     ELSE Raise("JSONDecodeError"))
    IN  Loaded(CleanTruncatedResponse(response_text))

\* a parse_response without its outer try/except: a failure of the enhancement
\* step reaches the caller
ParseResponseUncaught(response_text) ==
    LET Direct(direct) ==
            IF IsRaise(direct) THEN direct
            ELSE IF direct.t # "next" THEN direct
            ELSE PatternExtraction(response_text)
    IN  IF IsErrorResponse(response_text) THEN ExtractErrorMessage(response_text)
        ELSE Direct(DirectParse(response_text))

\* parse_response: a dict, or None
ParseResponse(response_text) ==
    LET Direct(direct) ==
            IF IsRaise(direct) THEN PyNone
            ELSE IF direct.t # "next" THEN direct
            ELSE PatternExtraction(response_text)
    IN  IF IsErrorResponse(response_text) THEN ExtractErrorMessage(response_text)
        ELSE Direct(DirectParse(response_text))

----------------------------------------------------------------------------
(* ChartBuilder._process_chart_data *)

\* d.get(k, "")
GetOrEmpty(d, k) == IF HasKey(d, k) THEN Get(d, k) ELSE PyStr("")

candlestick_cols == <<"Open", "High", "Low", "Close">>

\* list(data[0].keys()) if data[0] and isinstance(data[0], dict) else []
ColumnsOf(first) == IF first.t = "obj" THEN Keys(first) ELSE <<>>

\* the data, x and y that _process_chart_data finds in chart_data: in its data
\* field if that is there and not empty, else in the JSON text of its response
\* field; None if it finds no data or fails on the way
FindData(chart_data) ==
    LET Found(src) ==
            [data |-> Get(src, "data"), x_col |-> GetOrEmpty(src, "x"),
             y_col |-> GetOrEmpty(src, "y")]
        FromResponse(parsed) ==
            IF IsRaise(parsed) \/ parsed.t # "obj" THEN PyNone
            ELSE IF HasKey(parsed, "data") THEN Found(parsed)
            ELSE PyNone
        Loaded(response) ==
            IF response.t # "str" THEN PyNone
            ELSE FromResponse(JsonLoads(response.s))
    IN  IF chart_data.t # "obj" THEN PyNone
        ELSE IF HasKey(chart_data, "data") /\ Truthy(Get(chart_data, "data"))
             THEN Found(chart_data)
        ELSE IF HasKey(chart_data, "response") THEN Loaded(Get(chart_data, "response"))
        ELSE PyNone

\* missing_cols is not empty
MissingCandlestickCols(columns) ==
    \E c \in 1..Len(candlestick_cols) :
        \A k \in 1..Len(columns) : columns[k] # candlestick_cols[c]

\* the y default of a _process_chart_data that always takes the first column
DefaultYFirst(y_col, columns) ==
    IF ~Truthy(y_col) /\ Len(columns) > 0 THEN PyStr(columns[1])
    ELSE y_col

\* x_col after the defaults
DefaultX(x_col, columns) ==
    IF ~Truthy(x_col) /\ Len(columns) > 0 THEN PyStr(columns[1]) ELSE x_col

\* y_col after the defaults
DefaultY(y_col, columns) ==
    IF ~Truthy(y_col) /\ Len(columns) > 1 THEN PyStr(columns[2])
    ELSE IF ~Truthy(y_col) /\ Len(columns) > 0 THEN PyStr(columns[1])
    ELSE y_col

\* _process_chart_data: the processed data, or None
ProcessChartData(chart_data) ==
    LET Result(data, x_col, y_col, columns) ==
            IF ~Truthy(x_col) \/ ~Truthy(y_col) THEN PyNone
            ELSE PyDict(<<KV("data", data), KV("x_col", x_col), KV("y_col", y_col),
                          KV("columns", PyList([i \in 1..Len(columns) |-> PyStr(columns[i])]))>>)
        Defaults(data, x_col, y_col, columns) ==
            Result(data, DefaultX(x_col, columns), DefaultY(y_col, columns), columns)
        Resolve(data, x_col, y_col, columns) ==
            IF y_col.t = "arr" /\ Len(y_col.a) >= 4
            THEN IF MissingCandlestickCols(columns) THEN PyNone
                 ELSE Defaults(data, x_col, PyStr("Close"), columns)
            ELSE Defaults(data, x_col, y_col, columns)
        Checked(found) ==
            IF found = PyNone THEN PyNone
            ELSE IF ~Truthy(found.data) THEN PyNone
            ELSE IF found.data.t # "arr" THEN PyNone
            ELSE Resolve(found.data, found.x_col, found.y_col, ColumnsOf(found.data.a[1]))
    IN  Checked(FindData(chart_data))

----------------------------------------------------------------------------
(* The stored stock analyses, as test_multiple_analyses keeps them *)

\* analysis_data
AnalysisData(stock, timestamp) ==
    [symbol |-> stock.symbol, time_period |-> stock.time_period,
     data |-> "mock_data_" \o stock.symbol, timestamp |-> timestamp,
     data_source |-> "Sample"]

\* adding an analysis that drops every stored analysis of the symbol, whatever
\* its time period
AddAnalysisBySymbol(analyses, stock, timestamp) ==
    LET Kept(analysis) == ~(analysis.symbol = stock.symbol)
    IN  Append(SelectSeq(analyses, Kept), AnalysisData(stock, timestamp))

\* the body of the loop: the stored analysis of the same symbol and time period is
\* removed, the new one appended
AddAnalysis(analyses, stock, timestamp) ==
    LET Kept(analysis) ==
            ~(analysis.symbol = stock.symbol /\ analysis.time_period = stock.time_period)
    IN  Append(SelectSeq(analyses, Kept), AnalysisData(stock, timestamp))

----------------------------------------------------------------------------
(* BlueverseAPIClient._classify_query *)

QUERY_KEYWORDS ==
    [dashboard |-> <<"dashboard", "live dashboard", "create dashboard", "build dashboard",
                     "dashboard with", "interactive dashboard", "real-time dashboard">>,
     chart |-> <<"chart", "plot", "graph", "visualize", "visualization", "bar chart",
                 "line chart", "pie chart", "scatter plot", "histogram", "heatmap",
                 "candlestick", "stacked bar", "create chart", "show chart",
                 "generate chart", "plot data", "visualize data">>,
     table |-> <<"table", "raw data", "show data", "view data", "display data",
                 "data table", "show table", "preview data", "sample data", "first rows",
                 "head", "limit", "select", "query", "sql", "dataframe", "dataset">>]

\* one of the "for keyword in ...: if keyword in query_lower" loops
AnyKeywordIn(keywords, query_lower) ==
    \E i \in 1..Len(keywords) : Contains(query_lower, keywords[i])

\* a router that looks for chart and table keywords before dashboard keywords
ClassifyQueryChartFirst(q) ==
    LET query_lower == Lower(q)
    IN  IF AnyKeywordIn(QUERY_KEYWORDS.chart, query_lower) THEN "json_generator"
        ELSE IF AnyKeywordIn(QUERY_KEYWORDS.table, query_lower) THEN "json_generator"
        ELSE IF AnyKeywordIn(QUERY_KEYWORDS.dashboard, query_lower) THEN "dashboard"
        ELSE "main"

\* a router that never looks at the table keywords
ClassifyQueryNoTable(q) ==
    LET query_lower == Lower(q)
    IN  IF AnyKeywordIn(QUERY_KEYWORDS.dashboard, query_lower) THEN "dashboard"
        ELSE IF AnyKeywordIn(QUERY_KEYWORDS.chart, query_lower) THEN "json_generator"
        ELSE "main"

\* a router that matches the keywords against the query as typed
ClassifyQueryCaseSensitive(q) ==
    IF AnyKeywordIn(QUERY_KEYWORDS.dashboard, q) THEN "dashboard"
    ELSE IF AnyKeywordIn(QUERY_KEYWORDS.chart, q) THEN "json_generator"
    ELSE IF AnyKeywordIn(QUERY_KEYWORDS.table, q) THEN "json_generator"
    ELSE "main"

\* _classify_query
ClassifyQuery(q) ==
    LET query_lower == Lower(q)
    IN  IF AnyKeywordIn(QUERY_KEYWORDS.dashboard, query_lower) THEN "dashboard"
        ELSE IF AnyKeywordIn(QUERY_KEYWORDS.chart, query_lower) THEN "json_generator"
        ELSE IF AnyKeywordIn(QUERY_KEYWORDS.table, query_lower) THEN "json_generator"
        ELSE "main"

----------------------------------------------------------------------------
(* DashboardManager._parse_dashboard_query, on single-line queries *)

\* where the separator [.!?]\s*(?:and\s+)?|(?:\s+and\s+) that starts at i ends:
\* the position after it, 0 if none starts there
SeparatorEnd(s, i) ==
    LET AfterAnd(j) ==
            IF StartsWithAt(s, "and", j) /\ At(s, j + 3) \in SpaceChars
            THEN SkipWs(s, j + 3) ELSE 0
        Mark(j) == IF AfterAnd(j) # 0 THEN AfterAnd(j) ELSE j
    IN  IF At(s, i) \in {".", "!", "?"} THEN Mark(SkipWs(s, i + 1))
        ELSE IF At(s, i) \in SpaceChars THEN AfterAnd(SkipWs(s, i))
        ELSE 0

RECURSIVE SplitSentences(_, _)
\* re.split of the text from position start on
SplitSentences(s, start) ==
    LET Cut(i) == <<SubSeq(s, start, i - 1)>> \o SplitSentences(s, SeparatorEnd(s, i))
        First(seps) ==
            IF seps = {} THEN <<From(s, start)>>
            ELSE Cut(CHOOSE i \in seps : \A k \in seps : i <= k)
    IN  First({i \in start..Len(s) : SeparatorEnd(s, i) # 0})

RECURSIVE TitleFrom(_, _)
\* str.title() of lower-case text, from the i-th character on
TitleFrom(s, i) ==
    LET Upper(c) == At(UpperAlpha, CHOOSE k \in 1..26 : At(LowerAlpha, k) = c)
        IsLower(c) == \E k \in 1..26 : At(LowerAlpha, k) = c
    IN  IF i > Len(s) THEN ""
        ELSE (IF IsLower(At(s, i)) /\ ~IsLower(At(s, i - 1)) THEN Upper(At(s, i))
              ELSE At(s, i))
             \o TitleFrom(s, i + 1)

\* the words that introduce what a chart is about
description_words == <<"for", "of", "showing", "with">>

\* the first position >= i where one of the words for, of, showing, with stands
\* before whitespace, and the position after that word; <<0, 0>> if none
DescriptionWordFrom(s, i) ==
    LET WordAt(j, w) == StartsWithAt(s, w, j) /\ At(s, j + Len(w)) \in SpaceChars
        Stands(j) == \E k \in 1..4 : WordAt(j, description_words[k])
        AfterWord(j) == j + Len(description_words[CHOOSE k \in 1..4 : WordAt(j, description_words[k])])
        First(js) == IF js = {} THEN <<0, 0>>
                     ELSE <<CHOOSE j \in js : \A k \in js : j <= k,
                            AfterWord(CHOOSE j \in js : \A k \in js : j <= k)>>
    IN  First({j \in i..Len(s) : Stands(j)})

\* customers?\s+by\s+(?:total\s+)?spend matches at i
CustomersBySpendAt(s, i) ==
    LET Spend(j) == StartsWithAt(s, "spend", j)
        Total(j) ==
            \/ Spend(j)
            \/ /\ StartsWithAt(s, "total", j)
               /\ At(s, j + 5) \in SpaceChars
               /\ Spend(SkipWs(s, j + 5))
        By(j) == StartsWithAt(s, "by", j) /\ At(s, j + 2) \in SpaceChars /\ Total(SkipWs(s, j + 2))
        Gap(j) == At(s, j) \in SpaceChars /\ By(SkipWs(s, j))
    IN  /\ StartsWithAt(s, "customer", i)
        /\ Gap(i + 8) \/ (At(s, i + 8) = "s" /\ Gap(i + 9))

\* product\s+categories? or categories?\s+(?:pie\s+chart|distribution) matches at i
CategoriesAt(s, i) ==
    LET Kind(j) ==
            \/ StartsWithAt(s, "distribution", j)
            \/ /\ StartsWithAt(s, "pie", j)
               /\ At(s, j + 3) \in SpaceChars
               /\ StartsWithAt(s, "chart", SkipWs(s, j + 3))
        Gap(j) == At(s, j) \in SpaceChars /\ Kind(SkipWs(s, j))
    IN  \/ /\ StartsWithAt(s, "product", i)
           /\ At(s, i + 7) \in SpaceChars
           /\ StartsWithAt(s, "categorie", SkipWs(s, i + 7))
        \/ /\ StartsWithAt(s, "categorie", i)
           /\ Gap(i + 9) \/ (At(s, i + 9) = "s" /\ Gap(i + 10))

\* the description the first matching pattern of the chart type gives for the
\* sentence, before it is cleaned up; "" if no pattern matches.  The third pattern
\* of each type matches only where the first does, so it never decides.
PatternDescription(chart_type, sentence) ==
    LET Named(start, word) ==
            IF start = 0 \/ Len(sentence) < start + 1 THEN ""
            ELSE IF word[1] # 0 THEN Strip(From(sentence, word[2]))
            ELSE Strip(From(sentence, start + 1))
        AfterName(c) ==
            IF c = 0 THEN Named(0, <<0, 0>>)
            ELSE Named(c + Len(chart_type) + 6,
                       DescriptionWordFrom(sentence, c + Len(chart_type) + 7))
        Generic ==
            Strip(Replace(Replace(sentence, "chart", ""), chart_type, ""))
        Keyword ==
            IF chart_type = "bar" /\ \E i \in 1..Len(sentence) : CustomersBySpendAt(sentence, i)
            THEN "top 10 customers by spend"
            ELSE IF chart_type = "pie" /\ \E i \in 1..Len(sentence) : CategoriesAt(sentence, i)
            THEN IF Contains(sentence, "product") /\ Contains(sentence, "categor")
                 THEN "product categories" ELSE Generic
            ELSE ""
        Choose(named) == IF named # "" THEN named ELSE Keyword
    IN  Choose(AfterName(Find(sentence, chart_type \o " chart")))

\* the chart request appended for a description
ChartRequest(chart_type, description) ==
    [type |-> chart_type,
     title |-> TitleFrom(chart_type, 1) \o " Chart: " \o TitleFrom(description, 1),
     description |-> description,
     query |-> "Create a " \o chart_type \o " chart for " \o description]

RECURSIVE SentenceCharts(_, _, _)
\* the charts after the sentences from the i-th have been looked at
SentenceCharts(charts, sentences, i) ==
    LET Cleaned(description, word) ==
            IF word[1] = 1 THEN Strip(From(description, SkipWs(description, word[2])))
            ELSE description
        Add(cs, chart_type, description) ==
            IF description = "" THEN cs
            ELSE IF \E k \in 1..Len(cs) :
                        cs[k].description = description /\ cs[k].type = chart_type
                 THEN cs
            ELSE Append(cs, ChartRequest(chart_type, description))
        Type(cs, chart_type, description) ==
            Add(cs, chart_type, Cleaned(description, DescriptionWordFrom(description, 1)))
        Sentence(sentence) ==
            IF Len(sentence) < 5 THEN charts
            ELSE Type(Type(Type(charts, "bar", PatternDescription("bar", sentence)),
                           "pie", PatternDescription("pie", sentence)),
                      "line", PatternDescription("line", sentence))
    IN  IF i > Len(sentences) THEN charts
        ELSE SentenceCharts(Sentence(Strip(sentences[i])), sentences, i + 1)

\* _parse_dashboard_query: the dashboard configuration, or None
ParseDashboardQuery(q) ==
    LET Spend(query_lower) ==
            IF Contains(query_lower, "customer") /\ Contains(query_lower, "spend")
            THEN <<[ChartRequest("bar", "top 10 customers by spend")
                      EXCEPT !.title = "Bar Chart: Top Customers By Spend"]>>
            ELSE <<>>
        Categories(query_lower) ==
            IF (Contains(query_lower, "categories") \/ Contains(query_lower, "category"))
               /\ Contains(query_lower, "product")
            THEN <<ChartRequest("pie", "product categories")>>
            ELSE <<>>
        Config(charts) ==
            IF Len(charts) = 0 THEN PyNone
            ELSE [title |-> "Live Dashboard", charts |-> charts]
        Fallback(charts, query_lower) ==
            IF Len(charts) # 0 THEN Config(charts)
            ELSE Config(Spend(query_lower) \o Categories(query_lower))
        Charts(query_lower) ==
            Fallback(SentenceCharts(<<>>, SplitSentences(query_lower, 1), 1), query_lower)
    IN  Charts(Lower(q))

----------------------------------------------------------------------------
(* The backend flows, the dashboard pages and the dashboard registry *)

\* config.API_CONFIG
API_CONFIG ==
    [base_url |-> "https://blueverse-foundry.ltimindtree.com/chatservice/chat",
     main_api |-> [space_name |-> "Genieverse_9b5befb3",
                   flow_id |-> "68ac66333c336dbd12b96e10"],
     json_generator |-> [space_name |-> "Json_Generator_975a2dc0",
                         flow_id |-> "68ae94113d219c7a19e1446d"]]

\* the request _send_to_main_api ("main_api") and _send_to_json_generator
\* ("json_generator") post
PostOf(api, q) ==
    [url |-> API_CONFIG.base_url,
     json |-> [query |-> q,
               space_name |-> API_CONFIG[api].space_name,
               flowId |-> API_CONFIG[api].flow_id]]

\* what the two senders return when the request ends with status 200, with
\* another status, or with a RequestException
SendResult(api, outcome) ==
    LET Name == IF api = "main_api" THEN "Main API" ELSE "JSON Generator API"
        Used == IF api = "main_api" THEN "main" ELSE "json_generator"
    IN  CASE outcome = "200" -> [success |-> TRUE, api_used |-> Used]
          [] outcome = "500" -> [success |-> FALSE, error |-> Name \o " Error 500: "]
          [] OTHER -> [success |-> FALSE, error |-> Name \o " Connection Error: "]

RECURSIVE ReplaceRuns(_, _, _, _)
\* re.sub of the runs of characters of the class by rep, from the i-th character on
ReplaceRuns(s, i, cls, rep) ==
    IF i > Len(s) THEN ""
    ELSE IF At(s, i) \in cls THEN rep \o ReplaceRuns(s, Scan(s, i, cls, TRUE), cls, rep)
    ELSE At(s, i) \o ReplaceRuns(s, i + 1, cls, rep)

\* utils.clean_filename
CleanFilename(text) ==
    Lower(ReplaceRuns(ReplaceRuns(text, 1, {"<", ">", ":", "\"", "/", "\\", "|", "?", "*"}, ""),
                      1, SpaceChars, "_"))

\* the ticks of the clock in one second
TicksPerSecond == 3

\* datetime.now().strftime("%Y%m%d_%H%M%S") at the tick: the seconds of the first
\* minute of a day
Timestamp(tick) ==
    LET Second(n) == "20250101_0000" \o (IF n < 10 THEN "0" ELSE "") \o NatToStr(n)
    IN  Second(tick \div TicksPerSecond)

\* the name, the id and the path _generate_dashboard_page gives the page of a
\* dashboard with the title at the tick
PageOf(title, tick) ==
    LET Named(page_name) ==
            [page_name |-> page_name,
             dashboard_id |-> "dash_" \o Timestamp(tick),
             page_path |-> "pages/" \o page_name \o ".py"]
    IN  Named("dashboard_" \o CleanFilename(title) \o "_" \o Timestamp(tick))

\* the entry add_to_dashboard_registry builds at the tick
DashboardEntry(dashboard_config, page_path, dashboard_id, tick) ==
    LET Slashes == {i \in 1..Len(page_path) : At(page_path, i) = "/"}
        Basename ==
            IF Slashes = {} THEN page_path
            ELSE From(page_path, 1 + CHOOSE i \in Slashes : \A k \in Slashes : i >= k)
        Entry(name) ==
            [title |-> dashboard_config.title,
             dashboard_id |-> dashboard_id,
             page_path |-> page_path,
             page_name |-> name,
             created |-> tick,
             charts |-> dashboard_config.charts,
             url |-> "/" \o name]
    IN  Entry(Replace(Basename, ".py", ""))

\* a guard that leaves out the lower bound
ValidIndexBelow(registry_list, index) == index < Len(registry_list)

\* the guard of remove_dashboard
ValidIndex(registry_list, index) == 0 <= index /\ index < Len(registry_list)

\* the position list.pop(index) takes the element from
PopPosition(registry_list, index) ==
    IF index < 0 THEN Len(registry_list) + index + 1 ELSE index + 1

\* the list after list.pop(index), the index being in range
Pop(registry_list, index) ==
    SubSeq(registry_list, 1, PopPosition(registry_list, index) - 1)
      \o SubSeq(registry_list, PopPosition(registry_list, index) + 1, Len(registry_list))

----------------------------------------------------------------------------
(* The responses and queries the operations are run on *)

\* the most records a response's data array carries
MaxRecords == 2

\* the most words a query is made of
MaxWords == 3

\* the length of the filler that makes an error text long
LongFill == 201

\* the most analyses added in a session
MaxAnalyses == 3

RECURSIVE Repeat(_, _)
\* s * n
Repeat(s, n) ==
    IF n = 0 THEN ""
    ELSE IF n % 2 = 0 THEN LET half == Repeat(s, n \div 2) IN half \o half
    ELSE s \o Repeat(s, n - 1)

\* The records a data array is filled from.  text is the record as the backend
\* writes it; value is the record it denotes, None for a fragment that is not
\* valid JSON; salvage says whether a broken fragment closes its brace and still
\* shows at least two fields as "Date": "..." or "name": number.
RecordPool ==
    <<[text |-> "{\"Open\":551.0,\"Close\":545.45,\"Date\":\"2016-05-31\"}",
       value |-> PyDict(<<KV("Open", PyFloat("551.0")), KV("Close", PyFloat("545.45")),
                          KV("Date", PyStr("2016-05-31"))>>),
       salvage |-> FALSE],
      [text |-> "{\"Date\":\"2016-05-30\",\"Open\":547,\"High\":552,\"Low\":541,\"Close\":550}",
       value |-> PyDict(<<KV("Date", PyStr("2016-05-30")), KV("Open", PyInt("547")),
                          KV("High", PyInt("552")), KV("Low", PyInt("541")),
                          KV("Close", PyInt("550"))>>),
       salvage |-> FALSE],
      [text |-> "{\"Month\":\"Jan\",\"Sales\":120}",
       value |-> PyDict(<<KV("Month", PyStr("Jan")), KV("Sales", PyInt("120"))>>),
       salvage |-> FALSE],
      [text |-> "{\"Date\":\"2016-05-27\",\"Open\":543.15,\"Close\":}",
       value |-> PyNone,
       salvage |-> TRUE],
      [text |-> "{\"Date\":\"2016-05-26\" \"Open\"}",
       value |-> PyNone,
       salvage |-> FALSE]>>

\* the chart types a response declares; "" declares none
DeclaredChartTypes == {"line", "scatter", "candlestick", "bar", "heatmap", ""}

\* the two ways the backend writes the start of the data array
DataMarkers == {"\"data\":[", "\"data\": ["}

\* what follows the last record: the regular end, the end with declared axes
\* (y a name, y a list), the end with an object-valued field, a cut right after
\* the last record, and a cut inside a further record
Tails ==
    [closed |-> "]}",
     axes |-> "],\"x\":\"Date\",\"y\":\"Close\"}",
     ohlc |-> "],\"x\":\"Date\",\"y\":[\"Open\",\"High\",\"Low\",\"Close\"]}",
     layout |-> "],\"layout\":{\"title\":\"Prices\"}}",
     cut |-> "",
     cutmid |-> ",{\"Open\":543.15,\"Cl"]

TailNames == DOMAIN Tails

\* the tails that leave the response cut off mid-stream
CutTails == {"cut", "cutmid"}

\* sequences of pool indexes of length 0..MaxRecords
RecordChoices == UNION {[1..n -> 1..Len(RecordPool)] : n \in 0..MaxRecords}

ChartSamples ==
    [family : {"chart"}, chart_type : DeclaredChartTypes, marker : DataMarkers,
     records : RecordChoices, tail : TailNames]

\* the text of a chart response
RenderChart(sample) ==
    "{\"status\":\"success\","
    \o (IF sample.chart_type = "" THEN ""
        ELSE "\"chart_type\":\"" \o sample.chart_type \o "\",")
    \o sample.marker
    \o Join([i \in 1..Len(sample.records) |-> RecordPool[sample.records[i]].text], ",")
    \o Tails[sample.tail]

\* the pieces error messages are made of
ErrorLeads ==
    {"", "Failed to load data. ", "Error: bad request\n", "[TABLE_OR_VIEW_NOT_FOUND] ",
     "The table cannot be found. "}

ErrorCores == {"SQLSTATE: 42P01", "Exception in task", "nothing wrong", "TCS_stock missing"}

ErrorFills == {0, LongFill}

\* how a message reaches the parser: as plain text, as the error field of a JSON
\* object, as the error field of an otherwise regular chart response, and as a
\* string inside a record of a regular chart response
ErrorWrappers == {"plain", "field", "chartfield", "record"}

ErrorSamples ==
    [family : {"error"}, lead : ErrorLeads, core : ErrorCores, fill : ErrorFills,
     wrapper : ErrorWrappers]

\* error fields that are not strings
OddErrorFields == {"5", "null", "[\"SQLSTATE\"]", "{\"Failed to\":1}"}

OddSamples == [family : {"odd"}, field : OddErrorFields]

\* the message an error sample carries; as a JSON string it shows a line break
\* as the escape \n
MessageOf(sample) == sample.lead \o sample.core \o Repeat("x", sample.fill)

EscapeNewlines(s) == Replace(s, "\n", "\\n")

RenderError(sample) ==
    LET msg == MessageOf(sample)
        quoted == "\"" \o EscapeNewlines(msg) \o "\""
    IN  CASE sample.wrapper = "plain" -> msg
          [] sample.wrapper = "field" -> "{\"error\": " \o quoted \o "}"
          [] sample.wrapper = "chartfield" ->
                "{\"status\": \"success\", \"chart_type\": \"line\", \"error\": " \o quoted
                \o ", \"data\": [" \o RecordPool[1].text \o "]}"
          [] sample.wrapper = "record" ->
                "{\"status\": \"success\", \"chart_type\": \"line\", \"data\": ["
                \o "{\"Date\":\"2016-05-31\",\"note\":" \o quoted \o "}]}"

RenderOdd(sample) == "{\"error\": " \o sample.field \o "}"

\* data fields that are not lists of records: scalars, an object, and lists whose
\* first entry is not a record
OddDataFields ==
    {"5", "\"abc\"", "null", "{\"a\":1}", "[5]", "[null]",
     "[5," \o RecordPool[1].text \o "]"}

\* the start of the data field, as the backend writes it
OddDataMarkers == {"\"data\":", "\"data\": "}

OddDataSamples ==
    [family : {"odddata"}, chart_type : {"line", ""}, marker : OddDataMarkers,
     data : OddDataFields]

RenderOddData(sample) ==
    "{\"status\":\"success\","
    \o (IF sample.chart_type = "" THEN ""
        ELSE "\"chart_type\":\"" \o sample.chart_type \o "\",")
    \o sample.marker \o sample.data \o "}"

Samples == ChartSamples \cup ErrorSamples \cup OddSamples \cup OddDataSamples

\* The records of charts that declare no axes: a record whose first column is a
\* number, one whose time column is a number, one with two date-like columns,
\* a candlestick record, and a record with a text column first.
ColumnRecordPool ==
    <<[text |-> "{\"Sales\":120,\"Profit\":30,\"Region\":\"North\"}",
       value |-> PyDict(<<KV("Sales", PyInt("120")), KV("Profit", PyInt("30")),
                          KV("Region", PyStr("North"))>>)],
      [text |-> "{\"time\":1,\"value\":2.5}",
       value |-> PyDict(<<KV("time", PyInt("1")), KV("value", PyFloat("2.5"))>>)],
      [text |-> "{\"timestamp\":\"2016-05-31T10:00\",\"Date\":\"2016-05-31\",\"Close\":545.45}",
       value |-> PyDict(<<KV("timestamp", PyStr("2016-05-31T10:00")),
                          KV("Date", PyStr("2016-05-31")), KV("Close", PyFloat("545.45"))>>)],
      [text |-> "{\"Date\":\"2016-05-30\",\"Open\":547,\"High\":552,\"Low\":541,\"Close\":550}",
       value |-> PyDict(<<KV("Date", PyStr("2016-05-30")), KV("Open", PyInt("547")),
                          KV("High", PyInt("552")), KV("Low", PyInt("541")),
                          KV("Close", PyInt("550"))>>)],
      [text |-> "{\"Month\":\"Jan\",\"Sales\":120,\"Profit\":30}",
       value |-> PyDict(<<KV("Month", PyStr("Jan")), KV("Sales", PyInt("120")),
                          KV("Profit", PyInt("30"))>>)]>>

\* sequences of column record indexes of length 1..MaxRecords
ColumnRecordChoices == UNION {[1..n -> 1..Len(ColumnRecordPool)] : n \in 1..MaxRecords}

\* chart responses that declare neither x nor y, complete or cut right after
\* the last record
ColumnSamples ==
    [family : {"columns"}, chart_type : {"line", "scatter", "bar", "candlestick", "pie", ""},
     marker : DataMarkers, records : ColumnRecordChoices, tail : {"closed", "cut"}]

RenderColumns(sample) ==
    "{\"status\":\"success\","
    \o (IF sample.chart_type = "" THEN ""
        ELSE "\"chart_type\":\"" \o sample.chart_type \o "\",")
    \o sample.marker
    \o Join([i \in 1..Len(sample.records) |-> ColumnRecordPool[sample.records[i]].text], ",")
    \o Tails[sample.tail]

\* The records of responses whose status varies: a record of a date and a
\* price, and two records that carry a column named status themselves.
StatusRecordPool ==
    <<[text |-> "{\"Date\":\"2016-05-30\",\"Close\":550}",
       value |-> PyDict(<<KV("Date", PyStr("2016-05-30")), KV("Close", PyInt("550"))>>)],
      [text |-> "{\"Date\":\"2016-05-30\",\"status\":\"success\"}",
       value |-> PyDict(<<KV("Date", PyStr("2016-05-30")), KV("status", PyStr("success"))>>)],
      [text |-> "{\"Date\":\"2016-05-31\",\"status\":\"pending\"}",
       value |-> PyDict(<<KV("Date", PyStr("2016-05-31")), KV("status", PyStr("pending"))>>)]>>

\* sequences of status record indexes of length 1..MaxRecords
StatusRecordChoices == UNION {[1..n -> 1..Len(StatusRecordPool)] : n \in 1..MaxRecords}

\* the status a response declares at its top level; "" is a response without one
DeclaredStatuses == {"success", "", "pending", "Success"}

\* chart responses of a supported chart type with valid records, whose declared
\* status varies, complete or cut right after the last record
StatusSamples ==
    [family : {"status"}, status : DeclaredStatuses, chart_type : {"line", "bar"},
     marker : DataMarkers, records : StatusRecordChoices, tail : {"closed", "cut"}]

RenderStatus(smp) ==
    "{"
    \o (IF smp.status = "" THEN "" ELSE "\"status\":\"" \o smp.status \o "\",")
    \o "\"chart_type\":\"" \o smp.chart_type \o "\","
    \o smp.marker
    \o Join([i \in 1..Len(smp.records) |-> StatusRecordPool[smp.records[i]].text], ",")
    \o Tails[smp.tail]

Render(sample) ==
    CASE sample.family = "chart" -> RenderChart(sample)
      [] sample.family = "error" -> RenderError(sample)
      [] sample.family = "odd" -> RenderOdd(sample)
      [] sample.family = "odddata" -> RenderOddData(sample)
      [] sample.family = "columns" -> RenderColumns(sample)
      [] sample.family = "status" -> RenderStatus(sample)

\* The records chart data is made of: text as the backend writes the record, value
\* the record it denotes.  A full candlestick record, one without Low, a record of
\* two columns, of one column, and of none.
ChartRecordPool ==
    <<[text |-> "{\"Date\":\"2016-05-30\",\"Open\":547,\"High\":552,\"Low\":541,\"Close\":550}",
       value |-> PyDict(<<KV("Date", PyStr("2016-05-30")), KV("Open", PyInt("547")),
                          KV("High", PyInt("552")), KV("Low", PyInt("541")),
                          KV("Close", PyInt("550"))>>)],
      [text |-> "{\"Date\":\"2016-05-29\",\"Open\":543,\"High\":549,\"Close\":545}",
       value |-> PyDict(<<KV("Date", PyStr("2016-05-29")), KV("Open", PyInt("543")),
                          KV("High", PyInt("549")), KV("Close", PyInt("545"))>>)],
      [text |-> "{\"Month\":\"Jan\",\"Sales\":120}",
       value |-> PyDict(<<KV("Month", PyStr("Jan")), KV("Sales", PyInt("120"))>>)],
      [text |-> "{\"Sales\":120}",
       value |-> PyDict(<<KV("Sales", PyInt("120"))>>)],
      [text |-> "{}",
       value |-> PyDict(<<>>)]>>

\* the x a chart declares: none, the empty string, or a column
DeclaredX ==
    [none |-> [text |-> "", kv |-> <<>>],
     empty |-> [text |-> ",\"x\":\"\"", kv |-> <<KV("x", PyStr(""))>>],
     Date |-> [text |-> ",\"x\":\"Date\"", kv |-> <<KV("x", PyStr("Date"))>>]]

\* the y a chart declares: none, the empty string, a column, or the four
\* candlestick columns
DeclaredY ==
    [none |-> [text |-> "", kv |-> <<>>],
     empty |-> [text |-> ",\"y\":\"\"", kv |-> <<KV("y", PyStr(""))>>],
     Close |-> [text |-> ",\"y\":\"Close\"", kv |-> <<KV("y", PyStr("Close"))>>],
     ohlc |-> [text |-> ",\"y\":[\"Open\",\"High\",\"Low\",\"Close\"]",
               kv |-> <<KV("y", PyList(<<PyStr("Open"), PyStr("High"), PyStr("Low"),
                                         PyStr("Close")>>))>>]]

\* sequences of chart record indexes of length 0..MaxRecords
ChartRecordChoices == UNION {[1..n -> 1..Len(ChartRecordPool)] : n \in 0..MaxRecords}

\* chart data reaches the chart builder as a dict with a data field, or as a dict
\* whose response field holds the JSON text
ChartDataSamples ==
    [family : {"chartdata"}, via : {"data", "response"}, records : ChartRecordChoices,
     x : DOMAIN DeclaredX, y : DOMAIN DeclaredY]

\* the chart_data argument a sample stands for
BuildChartData(smp) ==
    IF smp.via = "data"
    THEN PyDict(<<KV("data", PyList([i \in 1..Len(smp.records) |->
                                       ChartRecordPool[smp.records[i]].value]))>>
                \o DeclaredX[smp.x].kv \o DeclaredY[smp.y].kv)
    ELSE PyDict(<<KV("response", PyStr(
                "{\"data\": ["
                \o Join([i \in 1..Len(smp.records) |-> ChartRecordPool[smp.records[i]].text], ", ")
                \o "]" \o DeclaredX[smp.x].text \o DeclaredY[smp.y].text \o "}"))>>)

\* the stocks analyses are asked for
Stocks == [symbol : {"TCS", "WIPRO", "RELIANCE"}, time_period : {"6M", "3M"}]

\* the words queries are made of
QueryWords ==
    {"create", "a", "dashboard", "Dashboard", "LIVE DASHBOARD", "chart", "Bar Chart",
     "table", "sales", "dashboards,", "plot"}

RECURSIVE QueriesOf(_)
\* the queries of exactly n words
QueriesOf(n) ==
    IF n = 1 THEN QueryWords
    ELSE {q \o " " \o w : q \in QueriesOf(n - 1), w \in QueryWords}

Queries == UNION {QueriesOf(n) : n \in 1..MaxWords}

----------------------------------------------------------------------------
(* The state machine *)

VARIABLES
    sample,         \* how response_text was put together
    response_text,  \* the argument of parse_response
    result,         \* what parse_response returned
    query,          \* the argument of _classify_query
    api_type,       \* what _classify_query returned
    pc,             \* "received" / "parsed", "asked" / "classified"
    instance,       \* which parser or client object the call is made on
    remembered,     \* an earlier call of the session: its object, argument and return value
    chart_data,     \* the argument of _process_chart_data
    processed_data, \* what _process_chart_data returned
    stock_analyses, \* st.session_state['stock_analyses']
    now,            \* the clock datetime.now() reads: the analyses added so far
    registry,       \* dashboards/dashboard_registry.json: the list of dashboard entries
    pages,          \* the paths of the files in pages/
    clock,          \* the clock the dashboard manager reads, in ticks
    users           \* for each user, the call in progress with its local values

vars ==
    <<sample, response_text, result, query, api_type, pc, instance, remembered,
      chart_data, processed_data, stock_analyses, now, registry, pages, clock, users>>

\* no chart data handed to the chart builder
NoChartData == chart_data = PyNone /\ processed_data = PyNone

\* no analysis stored
NoAnalyses == stock_analyses = <<>> /\ now = 0

\* the users of the application
Users == {1, 2}

\* a user who has made no call yet
IdleUser ==
    [pc |-> "idle", operation |-> "", query |-> "", index |-> 0, api_type |-> "",
     config |-> PyNone, page_path |-> "", dashboard_id |-> "", local |-> <<>>,
     posts |-> <<>>, reply |-> PyNone, before |-> [registry |-> <<>>, pages |-> {}],
     created |-> {}, removed |-> {}, calls |-> 0]

\* no registry file, no page file, nobody calling
NoDashboards ==
    registry = <<>> /\ pages = {} /\ clock = 0 /\ users = [u \in Users |-> IdleUser]

\* a dict with status = success
IsSuccessful(r) == r.t = "obj" /\ HasKey(r, "status") /\ Get(r, "status") = PyStr("success")

\* the objects calls are made on: two parsers, or two clients
Objects == {1, 2}

\* no call remembered yet
NoCall == [instance |-> 0, input |-> "", output |-> ""]

\* a call of a parser that keeps the chart type of its last chart and gives it to
\* the next chart that declares none
ParseResponseCallKeepingType ==
    LET Kept(fresh) ==
            IF IsSuccessful(result) /\ IsSuccessful(fresh) /\ sample.chart_type = ""
            THEN Put(fresh, "chart_type", Get(result, "chart_type"))
            ELSE fresh
    IN  /\ pc = "received"
        /\ result' = Kept(ParseResponse(response_text))
        /\ pc' = "parsed"
        /\ UNCHANGED <<sample, response_text, query, api_type, instance, remembered,
                       chart_data, processed_data, stock_analyses, now,
                 registry, pages, clock, users>>

\* a call of parse_response
ParseResponseCall ==
    /\ pc = "received"
    /\ result' = ParseResponse(response_text)
    /\ pc' = "parsed"
    /\ UNCHANGED <<sample, response_text, query, api_type, instance, remembered,
                       chart_data, processed_data, stock_analyses, now,
                 registry, pages, clock, users>>

\* a call of _classify_query
ClassifyQueryCall ==
    /\ pc = "asked"
    /\ api_type' = ClassifyQuery(query)
    /\ pc' = "classified"
    /\ UNCHANGED <<sample, response_text, result, query, instance, remembered,
                   chart_data, processed_data, stock_analyses, now,
                 registry, pages, clock, users>>

\* the parser, given one response
Init ==
    /\ sample \in Samples
    /\ response_text = Render(sample)
    /\ result = PyNone
    /\ query = ""
    /\ api_type = ""
    /\ pc = "received"
    /\ instance = 1
    /\ remembered = NoCall
    /\ NoChartData
    /\ NoAnalyses
    /\ NoDashboards

Next == ParseResponseCall

Spec == Init /\ [][Next]_vars

\* the parser, given one chart response that leaves the axes to be inferred
ColumnInit ==
    /\ sample \in ColumnSamples
    /\ response_text = Render(sample)
    /\ result = PyNone
    /\ query = ""
    /\ api_type = ""
    /\ pc = "received"
    /\ instance = 1
    /\ remembered = NoCall
    /\ NoChartData
    /\ NoAnalyses
    /\ NoDashboards

ColumnNext == ParseResponseCall

ColumnSpec == ColumnInit /\ [][ColumnNext]_vars

\* the parser, given one chart response whose declared status varies
StatusInit ==
    /\ sample \in StatusSamples
    /\ response_text = Render(sample)
    /\ result = PyNone
    /\ query = ""
    /\ api_type = ""
    /\ pc = "received"
    /\ instance = 1
    /\ remembered = NoCall
    /\ NoChartData
    /\ NoAnalyses
    /\ NoDashboards

StatusNext == ParseResponseCall

StatusSpec == StatusInit /\ [][StatusNext]_vars

\* the router, given one query
RouterInit ==
    /\ sample = [family |-> "none"]
    /\ response_text = ""
    /\ result = PyNone
    /\ query \in Queries
    /\ api_type = ""
    /\ pc = "asked"
    /\ instance = 1
    /\ remembered = NoCall
    /\ NoChartData
    /\ NoAnalyses
    /\ NoDashboards

RouterNext == ClassifyQueryCall

RouterSpec == RouterInit /\ [][RouterNext]_vars

\* a call of _process_chart_data
ProcessChartDataCall ==
    /\ pc = "charted"
    /\ processed_data' = ProcessChartData(chart_data)
    /\ pc' = "processed"
    /\ UNCHANGED <<sample, response_text, result, query, api_type, instance, remembered,
                   chart_data, stock_analyses, now,
                 registry, pages, clock, users>>

\* the chart builder, given one chart
ChartInit ==
    /\ sample \in ChartDataSamples
    /\ chart_data = BuildChartData(sample)
    /\ processed_data = PyNone
    /\ response_text = ""
    /\ result = PyNone
    /\ query = ""
    /\ api_type = ""
    /\ pc = "charted"
    /\ instance = 1
    /\ remembered = NoCall
    /\ NoAnalyses
    /\ NoDashboards

ChartNext == ProcessChartDataCall

ChartSpec == ChartInit /\ [][ChartNext]_vars

\* an analysis is added for some stock; the clock moves on
AddAnalysisStep ==
    /\ pc = "storing"
    /\ now < MaxAnalyses
    /\ \E stock \in Stocks : stock_analyses' = AddAnalysis(stock_analyses, stock, now + 1)
    /\ now' = now + 1
    /\ UNCHANGED <<sample, response_text, result, query, api_type, pc, instance, remembered,
                   chart_data, processed_data,
                 registry, pages, clock, users>>

\* a session that has stored no analysis yet
AnalysesInit ==
    /\ sample = [family |-> "none"]
    /\ response_text = ""
    /\ result = PyNone
    /\ query = ""
    /\ api_type = ""
    /\ pc = "storing"
    /\ instance = 1
    /\ remembered = NoCall
    /\ NoChartData
    /\ NoAnalyses
    /\ NoDashboards

AnalysesNext == AddAnalysisStep

AnalysesSpec == AnalysesInit /\ [][AnalysesNext]_vars

\* the responses of a session: complete charts with and without a declared type, a
\* chart cut off mid-record, an error, and a response whose data is no list
ParserSessionSamples ==
    {[family |-> "chart", chart_type |-> "", marker |-> "\"data\": [",
      records |-> <<1>>, tail |-> "closed"],
     [family |-> "chart", chart_type |-> "bar", marker |-> "\"data\": [",
      records |-> <<1>>, tail |-> "closed"],
     [family |-> "chart", chart_type |-> "candlestick", marker |-> "\"data\":[",
      records |-> <<2>>, tail |-> "ohlc"],
     [family |-> "chart", chart_type |-> "scatter", marker |-> "\"data\":[",
      records |-> <<3>>, tail |-> "closed"],
     [family |-> "chart", chart_type |-> "line", marker |-> "\"data\": [",
      records |-> <<1, 4>>, tail |-> "cutmid"],
     [family |-> "error", lead |-> "", core |-> "SQLSTATE: 42P01", fill |-> 0,
      wrapper |-> "field"],
     [family |-> "odddata", chart_type |-> "line", marker |-> "\"data\":", data |-> "5"]}

\* the caller hands the next response of the session to either parser; the call
\* that has just returned may be the one the session remembers
NextResponse ==
    /\ pc = "parsed"
    /\ sample' \in ParserSessionSamples
    /\ response_text' = Render(sample')
    /\ instance' \in Objects
    /\ remembered' \in {remembered,
                         [instance |-> instance, input |-> response_text, output |-> result]}
    /\ pc' = "received"
    /\ UNCHANGED <<result, query, api_type, chart_data, processed_data, stock_analyses, now,
                 registry, pages, clock, users>>

\* two parsers, each parsing a sequence of responses
ParserSessionInit ==
    /\ sample \in ParserSessionSamples
    /\ response_text = Render(sample)
    /\ result = PyNone
    /\ query = ""
    /\ api_type = ""
    /\ pc = "received"
    /\ instance \in Objects
    /\ remembered = NoCall
    /\ NoChartData
    /\ NoAnalyses
    /\ NoDashboards

ParserSessionNext == ParseResponseCall \/ NextResponse

ParserSessionSpec == ParserSessionInit /\ [][ParserSessionNext]_vars

\* the queries of a session: the same words in several spellings of letter case
SessionQueries ==
    {"dashboard", "Dashboard", "DASHBOARD", "show chart", "Show Chart", "SHOW CHART",
     "table", "TABLE", "sales", "Sales", "plot a table", "Plot A Table",
     "chart dashboard", "CHART DASHBOARD"}

\* the caller sends the next query of the session, to either client; the call that
\* has just returned may be the one the session remembers
SendQuery ==
    /\ pc = "classified"
    /\ query' \in SessionQueries
    /\ instance' \in Objects
    /\ remembered' \in {remembered, [instance |-> instance, input |-> query, output |-> api_type]}
    /\ pc' = "asked"
    /\ UNCHANGED <<sample, response_text, result, api_type,
                   chart_data, processed_data, stock_analyses, now,
                 registry, pages, clock, users>>

\* two clients, each classifying a sequence of queries
RouterSessionInit ==
    /\ sample = [family |-> "none"]
    /\ response_text = ""
    /\ result = PyNone
    /\ query \in SessionQueries
    /\ api_type = ""
    /\ pc = "asked"
    /\ instance \in Objects
    /\ remembered = NoCall
    /\ NoChartData
    /\ NoAnalyses
    /\ NoDashboards

RouterSessionNext == ClassifyQueryCall \/ SendQuery

RouterSessionSpec == RouterSessionInit /\ [][RouterSessionNext]_vars

----------------------------------------------------------------------------
(* Users sending queries and removing dashboards *)

\* the calls the users make
MaxCalls == 3

\* the clock ticks until which a second may pass unused
MaxClock == 3

\* the queries the users send
DashboardQueries ==
    {"Dashboard with bar chart for sales",
     "create a dashboard",
     "plot the sales",
     "what is revenue"}

\* how a request to the backend ends
Outcomes == {"200", "500", "exception"}

\* what _classify_query and _parse_dashboard_query make of each query
Routes ==
    [q \in DashboardQueries |->
        [api_type |-> ClassifyQuery(q), config |-> ParseDashboardQuery(q)]]

\* nobody is inside a call
AllReturned == \A u \in Users : users[u].pc \in {"idle", "done"}

\* the user may start a call: users take turns unless the scenario lets their
\* calls overlap
CanCall(u) ==
    /\ users[u].pc \in {"idle", "done"}
    /\ users[1].calls + users[2].calls < MaxCalls
    /\ sample.concurrent \/ AllReturned

\* the user's values at the start of a call
Started(u, operation) ==
    [users[u] EXCEPT !.pc = "done", !.operation = operation,
                     !.query = "", !.index = 0, !.api_type = "", !.config = PyNone,
                     !.page_path = "", !.dashboard_id = "", !.local = <<>>,
                     !.posts = <<>>, !.reply = PyNone,
                     !.before = [registry |-> registry, pages |-> pages],
                     !.calls = @ + 1]

\* send_query: the query is classified; a general or chart/table query is posted to
\* its flow and the call returns, a dashboard query is parsed into a configuration
SendQueryCall(u) ==
    \E q \in DashboardQueries, outcome \in Outcomes :
        LET Posted(api) ==
                [Started(u, "send_query") EXCEPT
                    !.query = q, !.api_type = Routes[q].api_type,
                    !.posts = <<PostOf(api, q)>>,
                    !.reply = SendResult(api, outcome)]
            Dashboard(config) ==
                IF config = PyNone
                THEN [Started(u, "send_query") EXCEPT
                        !.query = q, !.api_type = "dashboard",
                        !.reply = [success |-> FALSE,
                                   error |-> "Could not parse dashboard requirements from query"]]
                ELSE [Started(u, "send_query") EXCEPT
                        !.query = q, !.api_type = "dashboard", !.config = config,
                        !.pc = "page"]
            Routed(api_type_) ==
                CASE api_type_ = "json_generator" -> Posted("json_generator")
                  [] api_type_ = "dashboard" -> Dashboard(Routes[q].config)
                  [] OTHER -> Posted("main_api")
        IN  /\ CanCall(u)
            /\ users' = [users EXCEPT ![u] = Routed(Routes[q].api_type)]
            /\ UNCHANGED <<sample, response_text, result, query, api_type, pc, instance,
                           remembered, chart_data, processed_data, stock_analyses, now,
                           registry, pages, clock>>

\* _generate_dashboard_page up to create_streamlit_page: the clock is read and the
\* page file written
GeneratePage(u) ==
    /\ users[u].pc = "page"
    /\ pages' = pages \cup {PageOf(users[u].config.title, clock).page_path}
    /\ clock' = clock + 1
    /\ users' = [users EXCEPT
          ![u].pc = "load",
          ![u].page_path = PageOf(users[u].config.title, clock).page_path,
          ![u].dashboard_id = PageOf(users[u].config.title, clock).dashboard_id]
    /\ UNCHANGED <<sample, response_text, result, query, api_type, pc, instance,
                   remembered, chart_data, processed_data, stock_analyses, now, registry>>

\* add_to_dashboard_registry reads the registry file
LoadRegistry(u) ==
    /\ users[u].pc = "load"
    /\ users' = [users EXCEPT ![u].pc = "save", ![u].local = registry]
    /\ UNCHANGED <<sample, response_text, result, query, api_type, pc, instance,
                   remembered, chart_data, processed_data, stock_analyses, now,
                   registry, pages, clock>>

\* add_to_dashboard_registry appends its entry to the list it read and writes the
\* file, or fails to write it; create_dashboard_from_query and send_query return
SaveRegistry(u) ==
    \E written \in BOOLEAN :
        LET entry == DashboardEntry(users[u].config, users[u].page_path,
                                    users[u].dashboard_id, clock)
        IN  /\ users[u].pc = "save"
            /\ clock' = clock + 1
            /\ registry' = IF written THEN Append(users[u].local, entry) ELSE registry
            /\ users' = [users EXCEPT
                  ![u].pc = "done",
                  ![u].created = IF written THEN @ \cup {entry} ELSE @,
                  ![u].reply =
                      IF written
                      THEN [success |-> TRUE,
                            data |-> [dashboard_url |-> entry.url,
                                      dashboard_id |-> users[u].dashboard_id,
                                      page_name |-> entry.page_name,
                                      charts |-> users[u].config.charts,
                                      title |-> users[u].config.title],
                            api_used |-> "dashboard"]
                      ELSE [success |-> FALSE, error |-> "Failed to create dashboard page"]]
            /\ UNCHANGED <<sample, response_text, result, query, api_type, pc, instance,
                           remembered, chart_data, processed_data, stock_analyses, now, pages>>

\* remove_dashboard reads the registry file and tests the index
RemoveDashboardCall(u) ==
    \E index \in -1..(Len(registry) + 1) :
        /\ CanCall(u)
        /\ users' = [users EXCEPT ![u] =
              [Started(u, "remove_dashboard") EXCEPT
                  !.index = index, !.local = registry,
                  !.pc = IF ValidIndex(registry, index) THEN "pop" ELSE "done",
                  !.reply = IF ValidIndex(registry, index) THEN PyNone ELSE PyBool(FALSE)]]
        /\ UNCHANGED <<sample, response_text, result, query, api_type, pc, instance,
                       remembered, chart_data, processed_data, stock_analyses, now,
                       registry, pages, clock>>

\* remove_dashboard pops the entry from the list it read and writes the file, which
\* is taken to be writable; a pop that raises IndexError makes it return False
SaveRemoval(u) ==
    /\ users[u].pc = "pop"
    /\ IF PopPosition(users[u].local, users[u].index) \in 1..Len(users[u].local)
       THEN /\ registry' = Pop(users[u].local, users[u].index)
            /\ users' = [users EXCEPT
                  ![u].pc = "unlink",
                  ![u].removed =
                      @ \cup {users[u].local[PopPosition(users[u].local, users[u].index)]}]
       ELSE /\ registry' = registry
            /\ users' = [users EXCEPT ![u].pc = "done", ![u].reply = PyBool(FALSE)]
    /\ UNCHANGED <<sample, response_text, result, query, api_type, pc, instance,
                   remembered, chart_data, processed_data, stock_analyses, now,
                   pages, clock>>

\* remove_dashboard removes the page file of the entry, if it is there, and returns
RemovePage(u) ==
    /\ users[u].pc = "unlink"
    /\ pages' = pages \ {users[u].local[PopPosition(users[u].local, users[u].index)].page_path}
    /\ users' = [users EXCEPT ![u].pc = "done", ![u].reply = PyBool(TRUE)]
    /\ UNCHANGED <<sample, response_text, result, query, api_type, pc, instance,
                   remembered, chart_data, processed_data, stock_analyses, now,
                   registry, clock>>

\* the next second begins
Tick ==
    /\ clock < MaxClock
    /\ clock' = ((clock \div TicksPerSecond) + 1) * TicksPerSecond
    /\ UNCHANGED <<sample, response_text, result, query, api_type, pc, instance,
                   remembered, chart_data, processed_data, stock_analyses, now,
                   registry, pages, users>>

DashboardNext ==
    \/ \E u \in Users : SendQueryCall(u)
    \/ \E u \in Users : GeneratePage(u)
    \/ \E u \in Users : LoadRegistry(u)
    \/ \E u \in Users : SaveRegistry(u)
    \/ \E u \in Users : RemoveDashboardCall(u)
    \/ \E u \in Users : SaveRemoval(u)
    \/ \E u \in Users : RemovePage(u)
    \/ Tick

\* users who take turns: a call starts when every other call has returned
DashboardInit ==
    /\ sample = [family |-> "dashboards", concurrent |-> FALSE]
    /\ response_text = ""
    /\ result = PyNone
    /\ query = ""
    /\ api_type = ""
    /\ pc = "dashboards"
    /\ instance = 1
    /\ remembered = NoCall
    /\ NoChartData
    /\ NoAnalyses
    /\ NoDashboards

DashboardSpec == DashboardInit /\ [][DashboardNext]_vars

\* users whose calls overlap
ConcurrentInit ==
    /\ sample = [family |-> "dashboards", concurrent |-> TRUE]
    /\ response_text = ""
    /\ result = PyNone
    /\ query = ""
    /\ api_type = ""
    /\ pc = "dashboards"
    /\ instance = 1
    /\ remembered = NoCall
    /\ NoChartData
    /\ NoAnalyses
    /\ NoDashboards

ConcurrentSpec == ConcurrentInit /\ [][DashboardNext]_vars

----------------------------------------------------------------------------
(* What the properties speak of *)

\* parse_response has returned
Parsed == pc = "parsed"

\* a ChartSpec with status = success
IsSuccess(r) == r.t = "obj" /\ HasKey(r, "status") /\ Get(r, "status") = PyStr("success")

\* a result with status = error
IsErrorResult(r) == r.t = "obj" /\ HasKey(r, "status") /\ Get(r, "status") = PyStr("error")

\* the error indicators, as the specification lists them
IndicatorTexts ==
    {"\"error\":", "TABLE_OR_VIEW_NOT_FOUND", "SQLSTATE", "error", "ERROR", "Exception",
     "Failed", "cannot be found"}

HasIndicator(text) == \E ind \in IndicatorTexts : Contains(text, ind)

SupportedTypes == {"bar", "pie", "line", "scatter", "candlestick"}

\* the records of the sample's data array that are valid JSON, in input order
ValidRecords(smp) ==
    LET IsValid(i) == RecordPool[i].value # PyNone
        kept == SelectSeq(smp.records, IsValid)
    IN  [i \in 1..Len(kept) |-> RecordPool[kept[i]].value]

AllValid(smp) == \A i \in 1..Len(smp.records) : RecordPool[smp.records[i]].value # PyNone

AllBroken(smp) == \A i \in 1..Len(smp.records) : RecordPool[smp.records[i]].value = PyNone

\* the names of the columns of a record whose values are numbers, in column order
NumericColumns(record) ==
    LET IsNum(kv) == kv.v.t \in {"int", "float"}
        num == SelectSeq(record.kv, IsNum)
    IN  [i \in 1..Len(num) |-> PyStr(num[i].k)]

\* the column names a result's y stands for
YNames(r) ==
    LET y == Get(r, "y")
    IN  IF y.t = "arr" THEN {y.a[i].s : i \in 1..Len(y.a)}
        ELSE IF y.t = "str" THEN {y.s}
        ELSE {}

----------------------------------------------------------------------------
(* C1 *)

\* C1: a response text that contains any error indicator yields a result with
\* status = error, never a success ChartSpec, even when it also carries the
\* status-success marker and a well-formed data array.
C1_ErrorPrecedence ==
    (Parsed /\ HasIndicator(response_text)) => (IsErrorResult(result) /\ ~IsSuccess(result))

\* an error indicator inside a record of an otherwise regular chart response
C1_Witness ==
    /\ Parsed
    /\ sample.family = "error"
    /\ sample.wrapper = "record"
    /\ StatusSuccessSearch(response_text)
    /\ Contains(response_text, "\"data\": [{")
    /\ ~Contains(response_text, "\"error\":")
    /\ HasIndicator(response_text)
    /\ IsErrorResult(result)

----------------------------------------------------------------------------
(* C2 *)

\* a success response of a supported chart type, cut off after k >= 1 complete
\* records; the records of a candlestick response have Open, High, Low and Close
TruncatedSuccess(smp) ==
    /\ smp.family = "chart"
    /\ smp.chart_type \in SupportedTypes
    /\ smp.tail \in CutTails
    /\ Len(smp.records) >= 1
    /\ AllValid(smp)
    /\ smp.chart_type = "candlestick" =>
           \A i \in 1..Len(smp.records) :
               \A col \in {"Open", "High", "Low", "Close"} :
                   HasKey(RecordPool[smp.records[i]].value, col)

\* C2: a success response cut off after k >= 1 complete records, written with
\* "data":[ or with "data": [, yields a ChartSpec with the declared chart type,
\* exactly those k records in input order, x = Date when the records have a Date
\* field, and for scatter y = the first two numeric columns.
C2_TruncationTolerance ==
    (Parsed /\ TruncatedSuccess(sample)) =>
        /\ IsSuccess(result)
        /\ Get(result, "chart_type") = PyStr(sample.chart_type)
        /\ Get(result, "data") = PyList(ValidRecords(sample))
        /\ (\A i \in 1..Len(ValidRecords(sample)) : HasKey(ValidRecords(sample)[i], "Date"))
               => Get(result, "x") = PyStr("Date")
        /\ sample.chart_type = "scatter"
               => Get(result, "y") = PyList(Take(NumericColumns(ValidRecords(sample)[1]), 2))

----------------------------------------------------------------------------
(* C3 *)

\* C3: a result with status = success has a data field that is a non-empty
\* sequence of records.
C3_SuccessImpliesData ==
    (Parsed /\ IsSuccess(result)) =>
        /\ HasKey(result, "data")
        /\ Get(result, "data").t = "arr"
        /\ Len(Get(result, "data").a) > 0

----------------------------------------------------------------------------
(* C4 *)

\* C4: in a result with status = success every record of data contains the
\* column named by x and every column named by y, and for candlestick Open,
\* High, Low and Close.
C4_AxisColumnsExist ==
    (Parsed /\ IsSuccess(result) /\ HasKey(result, "data") /\ Get(result, "data").t = "arr") =>
        \A i \in 1..Len(Get(result, "data").a) :
            LET record == Get(result, "data").a[i]
            IN  /\ HasKey(result, "x") => HasKey(record, Get(result, "x").s)
                /\ HasKey(result, "y") => \A col \in YNames(result) : HasKey(record, col)
                /\ GetOrNone(result, "chart_type") = PyStr("candlestick")
                       => \A col \in {"Open", "High", "Low", "Close"} : HasKey(record, col)

----------------------------------------------------------------------------
(* C5 *)

\* C5: a result with status = success has a chart_type among bar, pie, line,
\* scatter and candlestick; a response that declares a chart type outside this
\* set yields None.
C5_SupportedChartTypes ==
    /\ (Parsed /\ IsSuccess(result)) =>
           /\ HasKey(result, "chart_type")
           /\ Get(result, "chart_type") \in {PyStr(ct) : ct \in SupportedTypes}
    /\ (Parsed /\ sample.family = "chart" /\ sample.chart_type \notin SupportedTypes \cup {""})
           => result = PyNone

----------------------------------------------------------------------------
(* C6 *)

\* C6: every record in the data of a returned ChartSpec is a record of the
\* response's data array, with the field names and values it has there.
C6_NeverFabricates ==
    (Parsed /\ sample.family = "chart" /\ IsSuccess(result) /\ HasKey(result, "data")
        /\ Get(result, "data").t = "arr") =>
        \A i \in 1..Len(Get(result, "data").a) :
            \E j \in 1..Len(ValidRecords(sample)) :
                Get(result, "data").a[i] = ValidRecords(sample)[j]

----------------------------------------------------------------------------
(* C7 *)

\* C7: the error message of a response classified as an error does not contain
\* SQLSTATE.
C7_NoSqlState ==
    (Parsed /\ IsErrorResult(result)) => ~InOp("SQLSTATE", Get(result, "error"))

----------------------------------------------------------------------------
(* C8 *)

\* C8: the error message of a response classified as an error has at most 200
\* characters plus the three of a trailing ellipsis.
C8_ErrorLengthCapped ==
    (Parsed /\ IsErrorResult(result)) => Len(Get(result, "error").s) <= MaxErrorLen + 3

----------------------------------------------------------------------------
(* C9 *)

\* a chart response whose data array holds nothing but invalid fragments
OnlyInvalidFragments(smp) ==
    /\ smp.family = "chart"
    /\ AllBroken(smp)
    /\ Len(smp.records) >= 1 \/ smp.tail = "cutmid"

\* C9: a response free of error indicators whose data array contains only
\* syntactically invalid record fragments yields None, never a ChartSpec with
\* status = success.
C9_ZeroRecordAbort ==
    (Parsed /\ OnlyInvalidFragments(sample) /\ ~HasIndicator(response_text))
        => (result = PyNone /\ ~IsSuccess(result))

----------------------------------------------------------------------------
(* C10 *)

\* C10: a query that contains a dashboard keyword, in whatever letter case, is
\* classified as dashboard, whatever chart or table keywords it also contains.
C10_DashboardFirst ==
    (pc = "classified" /\ AnyKeywordIn(QUERY_KEYWORDS.dashboard, Lower(query)))
        => api_type = "dashboard"

\* a query with a dashboard keyword in capitals and a chart keyword before it
C10_Witness ==
    /\ pc = "classified"
    /\ Contains(query, "chart")
    /\ Contains(query, "Dashboard")
    /\ ~Contains(query, "dashboard")
    /\ Find(query, "chart") < Find(query, "Dashboard")
    /\ api_type = "dashboard"

----------------------------------------------------------------------------
(* C11 *)

\* the lower-cased query contains a keyword of the list named kind
HasKeyword(kind, q) == AnyKeywordIn(QUERY_KEYWORDS[kind], Lower(q))

\* C11: for a non-empty query _classify_query returns one of the three intents
\* dashboard, json_generator (chart/table) and main (general); it returns main
\* exactly when the lower-cased query contains no keyword of any list, and
\* json_generator exactly when it contains no dashboard keyword but a chart or
\* a table keyword.
C11_TotalWithDefault ==
    (pc = "classified" /\ query # "") =>
        /\ api_type \in {"dashboard", "json_generator", "main"}
        /\ api_type = "main" <=> \A kind \in {"dashboard", "chart", "table"} :
                                     ~HasKeyword(kind, query)
        /\ api_type = "json_generator" <=>
               /\ ~HasKeyword("dashboard", query)
               /\ HasKeyword("chart", query) \/ HasKeyword("table", query)

\* a query of several words, none of them a keyword, routed to main
C11_Witness ==
    /\ pc = "classified"
    /\ Contains(query, " ")
    /\ \A kind \in {"dashboard", "chart", "table"} : ~HasKeyword(kind, query)
    /\ api_type = "main"


(* C12 *)
\* the session remembers a call
Remembers == remembered.instance # 0

\* C12: the intent depends on the lower-cased query alone: a query that differs from
\* an earlier query of the session in letter case only, or not at all, gets the
\* intent the earlier one got, whichever client classified either and whatever
\* was classified in between
C12_StatelessCaseInsensitive ==
    (pc = "classified" /\ Remembers /\ Lower(remembered.input) = Lower(query)) =>
        api_type = remembered.output

\* a query classified on one client, and its other spelling classified later on
\* the other client, with the same outcome
C12_Witness ==
    /\ pc = "classified"
    /\ Remembers
    /\ remembered.instance # instance
    /\ remembered.input # query
    /\ Lower(remembered.input) = Lower(query)
    /\ api_type = remembered.output
    /\ api_type = "json_generator"


(* C13 *)
\* C13: parse_response always returns a value, a success ChartSpec, an error result
\* or None; no failure inside it (a JSON decode error, a missing key, a value of
\* the wrong type) reaches the caller
C13_NeverRaises ==
    Parsed =>
        /\ ~IsRaise(result)
        /\ result = PyNone \/ IsSuccess(result) \/ IsErrorResult(result)

\* a response whose data field is not a list of records made the enhancement step
\* fail, and the caller got None
C13_Witness ==
    /\ Parsed
    /\ sample.family = "odddata"
    /\ IsRaise(DirectParse(response_text))
    /\ result = PyNone


(* C14 *)
\* a complete chart response: no record broken, not cut off
WellFormed(smp) == smp.family = "chart" /\ smp.tail \notin CutTails /\ AllValid(smp)

Processed == pc = "processed"

\* the records of the chart data of a sample
ChartRecords(smp) == [i \in 1..Len(smp.records) |-> ChartRecordPool[smp.records[i]].value]

\* every record has the four candlestick columns
AllHaveOHLC(smp) ==
    \A i \in 1..Len(smp.records) : \A col \in {"Open", "High", "Low", "Close"} :
        HasKey(ChartRecords(smp)[i], col)

\* C15: with y declared as a list of four or more entries _process_chart_data gives
\* no result unless every record has Open, High, Low and Close among its keys, and
\* when it gives a result y is "Close"
C15_CandlestickColumns ==
    (Processed /\ sample.y = "ohlc") =>
        /\ ~AllHaveOHLC(sample) => processed_data = PyNone
        /\ processed_data # PyNone => Get(processed_data, "y_col") = PyStr("Close")


(* C16 *)
\* the sample declares neither x nor y: the field is absent or the empty string
DeclaresNoAxis(smp) == smp.x \in {"none", "empty"} /\ smp.y \in {"none", "empty"}

\* the keys of the first record of the sample
FirstKeys(smp) == Keys(ChartRecords(smp)[1])

\* C16: for records with neither x nor y declared, x is the first key of the first
\* record and y its second key, or its first key if it has only one; there is no
\* result only if the first record has no key at all
C16_DefaultColumns ==
    (Processed /\ DeclaresNoAxis(sample) /\ Len(sample.records) > 0) =>
        IF Len(FirstKeys(sample)) = 0 THEN processed_data = PyNone
        ELSE /\ processed_data # PyNone
             /\ Get(processed_data, "x_col") = PyStr(FirstKeys(sample)[1])
             /\ Get(processed_data, "y_col") =
                    IF Len(FirstKeys(sample)) >= 2 THEN PyStr(FirstKeys(sample)[2])
                    ELSE PyStr(FirstKeys(sample)[1])

\* two records of several columns: x is the first column and y the second
C16_Witness ==
    /\ Processed
    /\ DeclaresNoAxis(sample)
    /\ Len(sample.records) = 2
    /\ Len(FirstKeys(sample)) >= 2
    /\ processed_data # PyNone
    /\ Get(processed_data, "x_col") = PyStr(FirstKeys(sample)[1])
    /\ Get(processed_data, "y_col") = PyStr(FirstKeys(sample)[2])


(* C17 *)
\* two analyses of the same symbol and time period
SamePair(a, b) == a.symbol = b.symbol /\ a.time_period = b.time_period

\* no two stored analyses are of the same symbol and time period
OnePerPair(analyses) ==
    \A i, k \in 1..Len(analyses) : SamePair(analyses[i], analyses[k]) => i = k

\* what an add left of the analyses stored before it, given the analysis it added
KeptAfterAdd(before, after, added) ==
    LET Other(a) == ~SamePair(a, added)
    IN  /\ \A i \in 1..Len(after) : SamePair(after[i], added) => after[i] = added
        /\ SelectSeq(after, Other) = SelectSeq(before, Other)

Produces(outcome) == outcome.t = "obj"

\* C18: the strategies run in the order error detection, direct parse, pattern
\* extraction, each only after the ones before it produced nothing; an error
\* response gets the error result, a response the direct parse can handle gets
\* its result, and None is returned only when pattern extraction, too, produces
\* nothing: a failure inside the direct parse or its enhancement step leads on
\* to pattern extraction
C18_StrategyOrder ==
    Parsed =>
        IF IsErrorResponse(response_text) THEN result = ExtractErrorMessage(response_text)
        ELSE IF Produces(DirectParse(response_text)) THEN result = DirectParse(response_text)
        ELSE /\ result = PatternExtraction(response_text) \/ result = PyNone
             /\ result = PyNone => ~Produces(PatternExtraction(response_text))


(* C19 *)
\* the first record of the sample's data
FirstColumnRecord(smp) == ColumnRecordPool[smp.records[1]].value

\* the numeric columns of the first record other than the column x
NumericNonX(smp, x) ==
    LET NotX(name) == name # x
    IN  SelectSeq(NumericColumns(FirstColumnRecord(smp)), NotX)

\* C19: with no y declared, the inferred y is the four OHLC names for candlestick,
\* the first two numeric columns other than x for scatter, the first numeric
\* column other than x for line and bar, and all numeric columns otherwise
C19_InferredYExcludesX ==
    (Parsed /\ sample.family = "columns" /\ IsSuccess(result)) =>
        Get(result, "y") =
            CASE Get(result, "chart_type") = PyStr("candlestick") ->
                    PyList(<<PyStr("Open"), PyStr("High"), PyStr("Low"), PyStr("Close")>>)
              [] Get(result, "chart_type") = PyStr("scatter") ->
                    PyList(Take(NumericNonX(sample, Get(result, "x")), 2))
              [] Get(result, "chart_type") \in {PyStr("line"), PyStr("bar")} ->
                    PyList(Take(NumericNonX(sample, Get(result, "x")), 1))
              [] OTHER -> PyList(NumericColumns(FirstColumnRecord(sample)))

(* C20 *)
\* the date and time names
DateLikeNames == {"Date", "date", "time", "Time", "timestamp", "Timestamp"}

\* the first column of the record, in column order, with a date or time name
FirstDateLike(record) ==
    LET IsDateLike(name) == name \in DateLikeNames
    IN  FirstSuch(Keys(record), IsDateLike)

\* C20: with no x declared, the inferred x is the first column of the first
\* record, in column order, that has a date or time name, and the first column
\* if there is none
C20_InferredX ==
    (Parsed /\ sample.family = "columns" /\ IsSuccess(result)) =>
        Get(result, "x") =
            IF \E i \in 1..Len(Keys(FirstColumnRecord(sample))) :
                   Keys(FirstColumnRecord(sample))[i] \in DateLikeNames
            THEN PyStr(FirstDateLike(FirstColumnRecord(sample)))
            ELSE PyStr(Keys(FirstColumnRecord(sample))[1])


(* C21 *)
\* parse_response got its result from the pattern-based fallback
FellBackToPatterns ==
    /\ Parsed
    /\ ~IsErrorResponse(response_text)
    /\ ~IsRaise(DirectParse(response_text))
    /\ DirectParse(response_text).t = "next"

\* the record has the fields the chart type requires: Date and the four OHLC
\* names for candlestick, a date-like field for line and scatter, none for bar
\* and pie
HasRequiredFields(record, chart_type) ==
    CASE chart_type = "candlestick" ->
            \A name \in {"Date", "Open", "High", "Low", "Close"} : HasKey(record, name)
      [] chart_type \in {"line", "scatter"} ->
            \E i \in 1..Len(Keys(record)) : Keys(record)[i] \in DateLikeNames
      [] OTHER -> TRUE

\* the records of the sample that have the fields its chart type requires
RequiredRecords(smp) ==
    LET Has(i) == HasRequiredFields(ColumnRecordPool[i].value, smp.chart_type)
        kept == SelectSeq(smp.records, Has)
    IN  [i \in 1..Len(kept) |-> ColumnRecordPool[kept[i]].value]

\* C21: in the pattern-based fallback exactly the records with the required fields
\* of the chart type are kept, so a line or scatter record keyed by date, time or
\* timestamp is kept
C21_RequiredFields ==
    (FellBackToPatterns /\ sample.family = "columns" /\ sample.chart_type # "") =>
        IF Len(RequiredRecords(sample)) = 0 THEN result = PyNone
        ELSE /\ IsSuccess(result)
             /\ Get(result, "data") = PyList(RequiredRecords(sample))


(* C22 *)
\* C22: every ChartSpec with status success that parse_response returns, from the
\* direct parse or from the pattern-based fallback, carries the number of its
\* records as data_count and data_complete = true
C22_CountAndCompleteness ==
    (Parsed /\ IsSuccess(result)) =>
        /\ HasKey(result, "data_count")
        /\ Get(result, "data_count") = LenOp(Get(result, "data"))
        /\ HasKey(result, "data_complete")
        /\ Get(result, "data_complete") = PyBool(TRUE)


(* C23 *)
\* the user's send_query has returned
SendReturned(u) == users[u].pc = "done" /\ users[u].operation = "send_query"

\* the flow identifier API_CONFIG holds for an intent; it holds none for dashboards
ConfiguredFlow(intent) ==
    CASE intent = "main" -> API_CONFIG.main_api.flow_id
      [] intent = "json_generator" -> API_CONFIG.json_generator.flow_id
      [] OTHER -> ""

\* C23: a send_query call that has returned has made exactly one POST, to the base
\* URL, carrying the query and the flow identifier configured for the intent the
\* query was classified as; a reply with success names that intent as api_used
C23_RoutingDispatch ==
    \A u \in Users :
        SendReturned(u) =>
            /\ Len(users[u].posts) = 1
            /\ users[u].posts[1].url = API_CONFIG.base_url
            /\ users[u].posts[1].json.query = users[u].query
            /\ users[u].posts[1].json.flowId = ConfiguredFlow(users[u].api_type)
            /\ users[u].reply.success => users[u].reply.api_used = users[u].api_type


(* C24 *)
\* the entries the creations that reported success have added, and the entries the
\* removals have taken out
CreatedEntries == UNION {users[u].created : u \in Users}

RemovedEntries == UNION {users[u].removed : u \in Users}

InRegistry(entry) == \E i \in 1..Len(registry) : registry[i] = entry

\* C24: when the calls of two users on the dashboard registry overlap, then once
\* all of them have returned the registry holds the entry of every creation that
\* reported success, unless a removal took it out, and no entry that was removed
C24_NoLostEntry ==
    (sample.family = "dashboards" /\ AllReturned) =>
        /\ \A entry \in CreatedEntries \ RemovedEntries : InRegistry(entry)
        /\ \A entry \in RemovedEntries : ~InRegistry(entry)


(* C27 *)
\* C27: whatever dashboards the users have created, one after the other, every two
\* entries of the registry differ in their dashboard_id and in their page file
C27_UniqueIds ==
    \A i, j \in 1..Len(registry) :
        i # j =>
            /\ registry[i].dashboard_id # registry[j].dashboard_id
            /\ registry[i].page_path # registry[j].page_path


(* C28 *)
\* with this step the user's dashboard creation returns
CreationReturns(u) ==
    /\ users'[u] # users[u]
    /\ users'[u].pc = "done"
    /\ users'[u].operation = "send_query"
    /\ users'[u].api_type = "dashboard"

\* C28: when a dashboard creation returns with success = false, the registry is
\* the one the call found and no page file has been added to those it found; when
\* it returns with success = true, the registry is the one the call found with
\* one entry appended, and the page file of that entry exists
C28_FailureLeavesNoTrace ==
    [][\A u \in Users :
          CreationReturns(u) =>
              IF users'[u].reply.success
              THEN /\ Len(registry') = Len(users'[u].before.registry) + 1
                   /\ SubSeq(registry', 1, Len(registry') - 1) = users'[u].before.registry
                   /\ registry'[Len(registry')].page_path \in pages'
              ELSE /\ registry' = users'[u].before.registry
                   /\ pages' \subseteq users'[u].before.pages]_vars


(* C29 *)
\* with this step the user's remove_dashboard returns
RemovalReturns(u) ==
    /\ users'[u] # users[u]
    /\ users'[u].pc = "done"
    /\ users'[u].operation = "remove_dashboard"

\* the list without its element at the 0-based index i
Without(list, i) ==
    [k \in 1..(Len(list) - 1) |-> IF k <= i THEN list[k] ELSE list[k + 1]]

DeclaredAxes ==
    [axes |-> [x |-> PyStr("Date"), y |-> PyStr("Close")],
     ohlc |-> [x |-> PyStr("Date"),
               y |-> PyList(<<PyStr("Open"), PyStr("High"), PyStr("Low"), PyStr("Close")>>)]]

\* a complete response whose records are all valid JSON and which declares x and y
\* after its data array
DeclaresAxes(smp) ==
    /\ smp.family = "chart"
    /\ smp.tail \in DOMAIN DeclaredAxes
    /\ Len(smp.records) > 0
    /\ AllValid(smp)

\* C25: for a complete success response that declares x and y after its data
\* array, y being one column name or a list of names, parse_response returns a
\* ChartSpec whose x and y are the declared values
C25_DeclaredAxesSurvive ==
    (Parsed /\ DeclaresAxes(sample)) =>
        /\ IsSuccess(result)
        /\ Get(result, "x") = DeclaredAxes[sample.tail].x
        /\ Get(result, "y") = DeclaredAxes[sample.tail].y


(* C26 *)
\* a complete response whose records are all valid JSON objects
CompleteValid(smp) ==
    /\ smp.family = "chart"
    /\ smp.tail \notin CutTails
    /\ Len(smp.records) > 0
    /\ AllValid(smp)

\* C26: for a complete success response whose records are flat mappings of column
\* names to scalars, the data of the returned ChartSpec is the input data array,
\* record for record, whatever fields follow the data array
C26_DataUnchanged ==
    (Parsed /\ CompleteValid(sample)) =>
        /\ IsSuccess(result)
        /\ Get(result, "data") = PyList(ValidRecords(sample))


\* C30: Success requires a success status.  A response with a supported
\* chart_type and valid records whose declared status is missing or is not
\* "success" yields no result, whether it is complete (direct parse) or cut
\* (pattern extraction); a ChartSpec with status = success is returned only for
\* a response that declares status "success".
DeclaresSuccess(smp) == smp.status = "success"

C30_SuccessNeedsStatus ==
    (Parsed /\ sample.family = "status")
        => /\ ~DeclaresSuccess(sample) => result = PyNone
           /\ IsSuccess(result) => DeclaresSuccess(sample)

\* the same, for the responses none of whose records has a column named status
NoStatusColumn(smp) == \A i \in 1..Len(smp.records) : smp.records[i] = 1

C30_HoldsWithoutStatusColumn ==
    (Parsed /\ sample.family = "status" /\ NoStatusColumn(sample))
        => /\ ~DeclaresSuccess(sample) => result = PyNone
           /\ IsSuccess(result) => DeclaresSuccess(sample)

\* a response that declares a success status is parsed to a successful ChartSpec
C30_DeclaredSuccessParsed ==
    Parsed /\ sample.family = "status" /\ DeclaresSuccess(sample) /\ IsSuccess(result)

====
